---- MODULE Spec2Model ----
(***************************************************************************)
(* Model of the chart XML writer / series rewriter of python-pptx          *)
(* (pptx/chart/xmlwriter.py, pptx/chart/chart.py).                         *)
(*                                                                         *)
(*   Spec       the series reconciler: _Chart.replace_data and             *)
(*              _BaseSeriesXmlRewriter.replace_series_data acting on the   *)
(*              c:plotArea of an existing chart.                           *)
(*   SpecChart  the Chart / Plot value objects: Chart.__init__ and         *)
(*              Chart.add_plot.                                            *)
(*   SpecRender the chart document writer: Chart.add_plot followed by      *)
(*              Chart.xml_bytes (ChartXmlWriter, PlotXmlWriter and the     *)
(*              plot writers, AxesXmlWriter).                              *)
(*   SpecFactory the two factories, PlotXmlWriter and                      *)
(*              SeriesXmlRewriterFactory, called with any chart type.      *)
(*   SpecWriter the series writers: the fragments tx_xml, cat_xml,         *)
(*              val_xml, xVal_xml, yVal_xml, bubbleSize_xml of one series. *)
(*   SpecAxis   the axis lookups _Chart.category_axis / value_axis.        *)
(*   SpecLayout the c:layout element (pptx/oxml/chart/shared.py):          *)
(*              CT_Layout.horz_offset, x and y.                            *)
(***************************************************************************)
EXTENDS Integers, Sequences, FiniteSets, TLC

VARIABLES
    plotArea,      \* the c:plotArea: sequence of xChart elements (document order)
    before,        \* plotArea as it was when the last call started
    result,        \* outcome of the last call: "none", "ok" or the exception raised
    lastData,      \* chart_data of the last call
    lastRewriter,  \* rewriter family of the last call ("none" when none was built)
    lastVia,       \* entry point of the last call
    workbook,      \* embedded workbook: the chart data it was last updated from
    calls,         \* number of calls made
    chart,         \* the Chart object (pptx.chart.chart.Chart)
    addResult,     \* outcome of the last Chart.add_plot call
    addedPlot,     \* the Plot object handed to the last Chart.add_plot call
    adds,          \* number of add_plot calls made
    assigned,      \* the attribute assignments made on the chart and its plots
    doc,           \* the document the last Chart.xml_bytes call returned
    renderResult,  \* outcome of the last Chart.xml_bytes call
    dispatch,      \* outcome of the last direct call of the factories
    series,        \* the series data object handed to a series writer
    written,       \* the fragments the series writer produced for it
    chartSpace,    \* the axis elements of a loaded chart (c:chartSpace)
    axisResult,    \* outcome of the last _Chart.category_axis / value_axis call
    layout,        \* a c:layout element (CT_Layout)
    layoutOp       \* the last property access on the c:layout element

vars == <<plotArea, before, result, lastData, lastRewriter, lastVia, workbook,
          calls, chart, addResult, addedPlot, adds, assigned, doc, renderResult,
          dispatch, series, written, chartSpace, axisResult, layout,
          layoutOp>>

rewriteVars == <<plotArea, before, result, lastData, lastRewriter, lastVia,
                 workbook, calls>>
chartVars == <<chart, addResult, addedPlot, adds, assigned>>
renderVars == <<doc, renderResult, dispatch>>
writerVars == <<series, written>>
axisVars == <<chartSpace, axisResult>>
layoutVars == <<layout, layoutOp>>
auxVars == <<series, written, chartSpace, axisResult, layout, layoutOp>>

-----------------------------------------------------------------------------
(* Bounds *)

MaxSers == 2       \* series elements in an initial plot area
MaxGroups == 2     \* plot groups (xChart elements) in an initial plot area
MaxSeries == 3     \* series in a chart data
MaxCalls == 2      \* replace calls in one behaviour
MaxPlots == 3      \* add_plot calls in one behaviour
IdBits == 2        \* width of a random axis id in the model (24 in the code)
MaxChartSeries == 2  \* series in the chart data of a rendered chart
MaxRenderPlots == 2  \* add_plot calls before a chart is rendered
MaxAssigns == 1    \* attribute assignments (chart.data, plot axis ids) in one behaviour
MaxSetupCalls == 2 \* calls (add_plot, assignments) by the end of which the assignments are made

None == -1

-----------------------------------------------------------------------------
(* Generic helpers *)

Range(s) == {s[i] : i \in 1..Len(s)}

RECURSIVE SeqSum(_)
SeqSum(s) == IF s = <<>> THEN 0 ELSE Head(s) + SeqSum(Tail(s))

RECURSIVE Flatten(_)
Flatten(ss) == IF ss = <<>> THEN <<>> ELSE Head(ss) \o Flatten(Tail(ss))

SetMax(S) == CHOOSE m \in S : \A x \in S : x <= m

\* sequences over S of length 0..n
SeqsUpTo(S, n) == UNION {[1..k -> S] : k \in 0..n}

\* the permutations of 0..n-1, as sequences
PermsOf(n) == {p \in [1..n -> 0..(n - 1)] : \A i, j \in 1..n : i # j => p[i] # p[j]}

-----------------------------------------------------------------------------
(* Chart types (XL_CHART_TYPE members the writers know) *)

AreaTypes == {"AREA", "AREA_STACKED", "AREA_STACKED_100"}
BarTypes == {"BAR_CLUSTERED", "BAR_STACKED", "BAR_STACKED_100",
             "COLUMN_CLUSTERED", "COLUMN_STACKED", "COLUMN_STACKED_100"}
BubbleTypes == {"BUBBLE", "BUBBLE_THREE_D_EFFECT"}
DoughnutTypes == {"DOUGHNUT", "DOUGHNUT_EXPLODED"}
LineTypes == {"LINE", "LINE_MARKERS", "LINE_MARKERS_STACKED",
              "LINE_MARKERS_STACKED_100", "LINE_STACKED", "LINE_STACKED_100"}
PieTypes == {"PIE", "PIE_EXPLODED"}
RadarTypes == {"RADAR", "RADAR_FILLED", "RADAR_MARKERS"}
XyTypes == {"XY_SCATTER", "XY_SCATTER_LINES", "XY_SCATTER_LINES_NO_MARKERS",
            "XY_SCATTER_SMOOTH", "XY_SCATTER_SMOOTH_NO_MARKERS"}

ChartTypes == AreaTypes \cup BarTypes \cup BubbleTypes \cup DoughnutTypes
              \cup LineTypes \cup PieTypes \cup RadarTypes \cup XyTypes

\* XL_CHART_TYPE members neither PlotXmlWriter nor Plot.has_axes has an
\* entry for
OtherTypes == {"THREE_D_COLUMN", "SURFACE"}

AllTypes == ChartTypes \cup OtherTypes

\* SeriesXmlRewriterFactory: the rewriter family for a chart type
SeriesXmlRewriterFactory_NoBubble(chart_type) ==
    IF chart_type \in BubbleTypes \cup XyTypes THEN "xy"
    ELSE "category"

SeriesXmlRewriterFactory(chart_type) ==
    IF chart_type \in BubbleTypes THEN "bubble"
    ELSE IF chart_type \in XyTypes THEN "xy"
    ELSE "category"

-----------------------------------------------------------------------------
(* Text: a string is a sequence of characters; "&amp;", "&lt;" and "&gt;"   *)
(* stand for the entity references escape() produces.                       *)

\* xml.sax.saxutils.escape
EscapeChar(c) == IF c = "&" THEN "&amp;"
                 ELSE IF c = "<" THEN "&lt;"
                 ELSE IF c = ">" THEN "&gt;"
                 ELSE c

Escape(s) == [i \in 1..Len(s) |-> EscapeChar(s[i])]

\* parse_xml accepts character data with no bare "&" and no bare "<"
WellFormed(s) == \A i \in 1..Len(s) : s[i] \notin {"&", "<"}

-----------------------------------------------------------------------------
(* Series data (the series objects of a chart data)                         *)

Shapes == {"category", "xy", "bubble"}

\* the attribute groups a series data object of each shape has
SeriesAttrs(shape) ==
    IF shape = "category" THEN {"name", "categories", "values"}
    ELSE IF shape = "xy" THEN {"name", "x_values", "y_values"}
    ELSE {"name", "x_values", "y_values", "bubble_sizes"}

HasAttr(sd, attr) == attr \in SeriesAttrs(sd.shape)

\* a series data object; index is its position in the chart data, from 0.
\* categories holds the labels of its (flat) categories,
\* categories_are_numeric and categories_number_format are
\* series.categories.are_numeric and series.categories.number_format
SeriesData(shape, index, name, number_format, vals) ==
    [shape |-> shape, index |-> index, name |-> name,
     number_format |-> number_format,
     categories |-> IF shape = "category" THEN <<<<"a">>, <<"<">>>> ELSE <<>>,
     categories_are_numeric |-> FALSE,
     categories_number_format |-> <<"General">>,
     values |-> IF shape = "category" THEN vals ELSE <<>>,
     x_values |-> IF shape = "category" THEN <<>> ELSE vals,
     y_values |-> IF shape = "category" THEN <<>> ELSE vals,
     bubble_sizes |-> IF shape = "bubble" THEN vals ELSE <<>>]

\* the two series variants the model draws from: "g" has a plain number
\* format, "b" a number format holding markup characters ("[<9]0")
Variants == {"g", "b"}

VariantSeries(shape, index, v) ==
    IF v = "g" THEN SeriesData(shape, index, <<"a">>, <<"0">>, <<1, None, 3>>)
    ELSE SeriesData(shape, index, <<"&">>, <<"<", "0">>, <<None, 2>>)

\* sd over date categories: the labels are dates, which are numeric; a label
\* is held as category.numeric_str_val(date_1904), the text of its serial
\* number
DateCategories(sd) ==
    IF sd.shape # "category" THEN sd
    ELSE [sd EXCEPT !.categories = <<<<"43383">>, <<"43384">>>>,
                    !.categories_are_numeric = TRUE,
                    !.categories_number_format = <<"yyyy\\-mm\\-dd">>]

\* the chart data of one shape with at most MaxSeries series; the last
\* series may be of the "b" variant
ChartDataOf(shape) ==
    {[i \in 1..t[1] |-> VariantSeries(shape, i - 1,
                                      IF i = t[1] /\ t[2] THEN "b" ELSE "g")] :
        t \in (0..MaxSeries) \X BOOLEAN}

ChartDatas == UNION {ChartDataOf(shape) : shape \in Shapes}

NoData == <<>>

-----------------------------------------------------------------------------
(* Series writers: the elements a series writer builds                      *)

NoRef == [attr |-> "", index |-> None]

AbsentEl == [kind |-> "absent", f |-> NoRef, formatCode |-> <<>>,
             ptCount |-> 0, pts |-> {}, strs |-> {}]

\* _BaseSeriesXmlWriter.pt_xml / _CategorySeriesXmlWriter._val_pt_xml:
\* a c:pt for every position whose value is not None, idx from 0
PtsOf(values) == {<<i - 1, values[i]>> : i \in {j \in 1..Len(values) : values[j] # None}}

\* _BaseSeriesXmlWriter.tx
TxEl(sd) == [kind |-> "tx", f |-> [attr |-> "name_ref", index |-> sd.index],
             formatCode |-> <<>>, ptCount |-> 1, pts |-> {},
             strs |-> {<<0, Escape(sd.name)>>}]

\* _CategorySeriesXmlWriter.cat / cat_xml over flat categories: numeric
\* categories (dates included) give a c:numRef whose c:formatCode is
\* categories.number_format and whose points hold numeric_str_val of each
\* category (_cat_num_pt_xml, not escaped); string categories give a
\* c:strRef of the escaped labels (_cat_pt_xml)
CatEl(sd) ==
    IF sd.categories_are_numeric
    THEN [kind |-> "cat", f |-> [attr |-> "categories_ref", index |-> sd.index],
          formatCode |-> sd.categories_number_format,
          ptCount |-> Len(sd.categories),
          pts |-> {<<i - 1, sd.categories[i]>> : i \in 1..Len(sd.categories)},
          strs |-> {}]
    ELSE [kind |-> "cat", f |-> [attr |-> "categories_ref", index |-> sd.index],
          formatCode |-> <<>>, ptCount |-> Len(sd.categories), pts |-> {},
          strs |-> {<<i - 1, Escape(sd.categories[i])>> : i \in 1..Len(sd.categories)}]

\* _BaseSeriesXmlWriter.numRef_xml and _CategorySeriesXmlWriter._val_tmpl:
\* the number format is interpolated as it is
NumRefEl(kind, ref, sd, values) ==
    [kind |-> kind, f |-> [attr |-> ref, index |-> sd.index],
     formatCode |-> sd.number_format, ptCount |-> Len(values),
     pts |-> PtsOf(values), strs |-> {}]

ValEl(sd) == NumRefEl("val", "values_ref", sd, sd.values)
XValEl(sd) == NumRefEl("xVal", "x_values_ref", sd, sd.x_values)
YValEl(sd) == NumRefEl("yVal", "y_values_ref", sd, sd.y_values)
BubbleSizeEl(sd) == NumRefEl("bubbleSize", "bubble_sizes_ref", sd, sd.bubble_sizes)

\* the exception raised while building the element `field` from sd, or "ok":
\* an attribute the series data lacks is an AttributeError, text that is not
\* well-formed makes parse_xml raise XMLSyntaxError
BuildErr(field, sd) ==
    IF field = "tx" THEN
        IF ~HasAttr(sd, "name") THEN "AttributeError" ELSE "ok"
    ELSE IF field = "cat" THEN
        IF ~HasAttr(sd, "categories") THEN "AttributeError"
        ELSE IF sd.categories_are_numeric
                /\ ~WellFormed(sd.categories_number_format)
        THEN "XMLSyntaxError"
        ELSE "ok"
    ELSE LET attr == IF field = "val" THEN "values"
                     ELSE IF field = "xVal" THEN "x_values"
                     ELSE IF field = "yVal" THEN "y_values"
                     ELSE "bubble_sizes"
         IN IF ~HasAttr(sd, attr) THEN "AttributeError"
            ELSE IF ~WellFormed(sd.number_format) THEN "XMLSyntaxError"
            ELSE "ok"

BuildEl(field, sd) ==
    IF field = "tx" THEN TxEl(sd)
    ELSE IF field = "cat" THEN CatEl(sd)
    ELSE IF field = "val" THEN ValEl(sd)
    ELSE IF field = "xVal" THEN XValEl(sd)
    ELSE IF field = "yVal" THEN YValEl(sd)
    ELSE BubbleSizeEl(sd)

-----------------------------------------------------------------------------
(* The plot area: xChart elements holding c:ser elements                    *)
(*   xChart == [chart_type, sers]   sers in document order                  *)
(*   ser    == [id, idx, order, spPr, tx, cat, val, xVal, yVal, bubbleSize] *)
(* id is the identity of the element node; spPr stands for the formatting   *)
(* children of the series (fill, line, marker, data labels).                *)

DataFields == <<"tx", "cat", "val", "xVal", "yVal", "bubbleSize">>

\* the "old" child a series element of an existing document holds
OldEl(kind) == [kind |-> kind, f |-> [attr |-> "old", index |-> None],
                formatCode |-> <<"0">>, ptCount |-> 0, pts |-> {}, strs |-> {}]

\* a series element as a chart of the given rewriter family holds it
OldSer(id, idx, order, family) ==
    [id |-> id, idx |-> idx, order |-> order, spPr |-> id,
     tx |-> OldEl("tx"),
     cat |-> IF family = "category" THEN OldEl("cat") ELSE AbsentEl,
     val |-> IF family = "category" THEN OldEl("val") ELSE AbsentEl,
     xVal |-> IF family = "category" THEN AbsentEl ELSE OldEl("xVal"),
     yVal |-> IF family = "category" THEN AbsentEl ELSE OldEl("yVal"),
     bubbleSize |-> IF family = "bubble" THEN OldEl("bubbleSize") ELSE AbsentEl]

\* insertion of x into a sequence already sorted by c:order, after every
\* element whose order is not greater (sorted() is stable)
RECURSIVE InsertByOrder(_, _)
InsertByOrder(sorted, x) ==
    IF sorted = <<>> THEN <<x>>
    ELSE IF Head(sorted).order <= x.order
         THEN <<Head(sorted)>> \o InsertByOrder(Tail(sorted), x)
         ELSE <<x>> \o sorted

RECURSIVE SortByOrder(_)
SortByOrder(sers) ==
    IF sers = <<>> THEN <<>>
    ELSE InsertByOrder(SortByOrder(SubSeq(sers, 1, Len(sers) - 1)), sers[Len(sers)])

\* xChart.sers: the c:ser children in c:order sequence
XChartSers(xChart) == SortByOrder(xChart.sers)

\* plotArea.sers: series in xChart order, then series order
PlotAreaSers(pa) == Flatten([i \in 1..Len(pa) |-> XChartSers(pa[i])])

SerIds(pa) == {s.id : s \in Range(PlotAreaSers(pa))}
IdxVals(pa) == {s.idx : s \in Range(PlotAreaSers(pa))}
OrderVals(pa) == {s.order : s \in Range(PlotAreaSers(pa))}
SerById(pa, id) == CHOOSE s \in Range(PlotAreaSers(pa)) : s.id = id

\* plotArea.next_idx, plotArea.next_order: one more than the maximum present
NextIdx(pa) == IF IdxVals(pa) = {} THEN 0 ELSE SetMax(IdxVals(pa)) + 1

NextOrder(pa) == IF OrderVals(pa) = {} THEN 0 ELSE SetMax(OrderVals(pa)) + 1

\* a node identity not in use
FreshId(pa) == IF SerIds(pa) = {} THEN 1 ELSE SetMax(SerIds(pa)) + 1

\* plotArea.last_ser: the last series of the last xChart, in series order
\* (None when that xChart has no series; IndexError without any xChart)
LastSerErr(pa) ==
    IF Len(pa) = 0 THEN "IndexError"
    ELSE IF Len(pa[Len(pa)].sers) = 0 THEN "AttributeError"
    ELSE "ok"

LastSer(pa) == LET ss == XChartSers(pa[Len(pa)]) IN ss[Len(ss)]

\* lxml addnext: new placed right after the element with identity id
RECURSIVE AddNext(_, _, _)
AddNext(sers, id, new) ==
    IF sers = <<>> THEN <<>>
    ELSE IF Head(sers).id = id THEN <<Head(sers), new>> \o Tail(sers)
    ELSE <<Head(sers)>> \o AddNext(Tail(sers), id, new)

AddNextInPlotArea(pa, id, new) ==
    [i \in 1..Len(pa) |-> [pa[i] EXCEPT !.sers = AddNext(pa[i].sers, id, new)]]

\* parent.remove(ser) for every ser whose identity is in ids
RemoveSers(pa, ids) ==
    [i \in 1..Len(pa) |->
        [pa[i] EXCEPT !.sers = SelectSeq(pa[i].sers, LAMBDA s : s.id \notin ids)]]

\* replace the series with s's identity by s
PutSer(pa, s) ==
    [i \in 1..Len(pa) |->
        [pa[i] EXCEPT !.sers = [j \in 1..Len(pa[i].sers) |->
            IF pa[i].sers[j].id = s.id THEN s ELSE pa[i].sers[j]]]]

-----------------------------------------------------------------------------
(* _BaseSeriesXmlRewriter                                                   *)

\* clone_ser: deepcopy(ser) with idx and order set to plotArea.next_idx and
\* plotArea.next_order (taken before the copy is inserted)
CloneSer(pa, ser) ==
    [ser EXCEPT !.id = FreshId(pa), !.idx = NextIdx(pa), !.order = NextOrder(pa)]

\* the loop of _add_cloned_sers: each clone is added after the previous one
RECURSIVE CloneLoop(_, _, _)
CloneLoop(pa, last_ser, count) ==
    IF count = 0 THEN pa
    ELSE LET new_ser == CloneSer(pa, last_ser)
         IN CloneLoop(AddNextInPlotArea(pa, last_ser.id, new_ser), new_ser, count - 1)

\* _add_cloned_sers: plotArea.last_ser is read first (IndexError without any
\* xChart); with no series to clone (last_ser is None) the first clone_ser
\* raises AttributeError before anything is changed, and a count of 0 clones
\* nothing and returns
AddClonedSers(pa, count) ==
    IF LastSerErr(pa) = "IndexError" THEN [pa |-> pa, err |-> "IndexError"]
    ELSE IF count = 0 THEN [pa |-> pa, err |-> "ok"]
    ELSE IF LastSerErr(pa) # "ok" THEN [pa |-> pa, err |-> LastSerErr(pa)]
    ELSE [pa |-> CloneLoop(pa, LastSer(pa), count), err |-> "ok"]

\* plotArea.sers[-count:] for count >= 0; sers[-0:] is sers[0:], the whole
\* sequence
LastN(sers, count) ==
    SubSeq(sers,
           IF count = 0 \/ count >= Len(sers) THEN 1 ELSE Len(sers) - count + 1,
           Len(sers))

\* _trim_ser_count_by
TrimSerCountBy_KeepEmpty(pa, count) ==
    RemoveSers(pa, {s.id : s \in Range(LastN(PlotAreaSers(pa), count))})

TrimSerCountBy(pa, count) ==
    LET extra_sers == LastN(PlotAreaSers(pa), count)
        trimmed == RemoveSers(pa, {s.id : s \in Range(extra_sers)})
    IN SelectSeq(trimmed, LAMBDA xChart : Len(xChart.sers) # 0)

\* _adjust_ser_count
AdjustSerCount_OneShort(pa, new_ser_count) ==
    LET ser_count_diff == new_ser_count - Len(PlotAreaSers(pa))
    IN IF ser_count_diff > 0 THEN AddClonedSers(pa, ser_count_diff - 1)
       ELSE IF ser_count_diff < 0
            THEN [pa |-> TrimSerCountBy(pa, 0 - ser_count_diff), err |-> "ok"]
       ELSE [pa |-> pa, err |-> "ok"]

AdjustSerCount_OneMore(pa, new_ser_count) ==
    LET ser_count_diff == new_ser_count - Len(PlotAreaSers(pa))
    IN IF ser_count_diff >= 0 THEN AddClonedSers(pa, ser_count_diff + 1)
       ELSE [pa |-> TrimSerCountBy(pa, 0 - ser_count_diff), err |-> "ok"]

AdjustSerCount(pa, new_ser_count) ==
    LET ser_count_diff == new_ser_count - Len(PlotAreaSers(pa))
    IN IF ser_count_diff > 0 THEN AddClonedSers(pa, ser_count_diff)
       ELSE IF ser_count_diff < 0
            THEN [pa |-> TrimSerCountBy(pa, 0 - ser_count_diff), err |-> "ok"]
       ELSE [pa |-> pa, err |-> "ok"]

\* the children a rewriter family removes and inserts, in the order it
\* inserts them (_rewrite_ser_data of the three subclasses)
RewriterFields(rewriter) ==
    IF rewriter = "category" THEN <<"tx", "cat", "val">>
    ELSE IF rewriter = "xy" THEN <<"tx", "xVal", "yVal">>
    ELSE <<"tx", "xVal", "yVal", "bubbleSize">>

\* ser with the first k of fields built from sd and inserted
RECURSIVE InsertFields(_, _, _, _)
InsertFields(ser, fields, k, sd) ==
    IF k = 0 THEN ser
    ELSE [InsertFields(ser, fields, k - 1, sd) EXCEPT ![fields[k]] = BuildEl(fields[k], sd)]

\* ser with every one of fields removed
RemoveFields(ser, fields) ==
    [a \in DOMAIN ser |-> IF a \in Range(fields) THEN AbsentEl ELSE ser[a]]

\* _rewrite_ser_data: remove the children, then build and insert each in
\* turn; the first element that cannot be built ends the call with the
\* children before it inserted and the others missing
RewriteSer_DropFormat(rewriter, ser, sd) ==
    [ser |-> [InsertFields(RemoveFields(ser, RewriterFields(rewriter)),
                           RewriterFields(rewriter),
                           Len(RewriterFields(rewriter)), sd) EXCEPT !.spPr = 0],
     err |-> "ok"]

RewriteSer(rewriter, ser, sd) ==
    LET fields == RewriterFields(rewriter)
        bad == {k \in 1..Len(fields) : BuildErr(fields[k], sd) # "ok"}
        firstBad == IF bad = {} THEN 0 ELSE CHOOSE k \in bad : \A j \in bad : k <= j
        removed == RemoveFields(ser, fields)
    IN IF firstBad = 0
       THEN [ser |-> InsertFields(removed, fields, Len(fields), sd), err |-> "ok"]
       ELSE [ser |-> InsertFields(removed, fields, firstBad - 1, sd),
             err |-> BuildErr(fields[firstBad], sd)]

\* the loop of replace_series_data over zip(plotArea.sers, chart_data)
RECURSIVE RewriteLoop(_, _, _, _)
RewriteLoop(rewriter, pa, sers, chart_data) ==
    IF sers = <<>> \/ chart_data = <<>> THEN [pa |-> pa, err |-> "ok"]
    ELSE LET r == RewriteSer(rewriter, Head(sers), Head(chart_data))
         IN IF r.err # "ok" THEN [pa |-> PutSer(pa, r.ser), err |-> r.err]
            ELSE RewriteLoop(rewriter, PutSer(pa, r.ser), Tail(sers), Tail(chart_data))

\* replace_series_data
ReplaceSeriesData_Reversed(rewriter, pa, chart_data) ==
    LET adj == AdjustSerCount(pa, Len(chart_data))
        sers == PlotAreaSers(adj.pa)
    IN IF adj.err # "ok" THEN adj
       ELSE RewriteLoop(rewriter, adj.pa,
                        [i \in 1..Len(sers) |-> sers[Len(sers) + 1 - i]], chart_data)

ReplaceSeriesData(rewriter, pa, chart_data) ==
    LET adj == AdjustSerCount(pa, Len(chart_data))
    IN IF adj.err # "ok" THEN adj
       ELSE RewriteLoop(rewriter, adj.pa, PlotAreaSers(adj.pa), chart_data)

\* _Chart.chart_type: the chart type of the first plot (IndexError without one)
ChartTypeOf(pa) == pa[1].chart_type

-----------------------------------------------------------------------------
(* Initial plot areas: documents whose series idx values are unique and     *)
(* contiguous from 0, in any arrangement over the plot groups.              *)

RewriteTypes == {"BAR_CLUSTERED", "XY_SCATTER", "BUBBLE"}

\* numbers of series per plot group
GroupSizes == {z \in SeqsUpTo(0..MaxSers, MaxGroups) : SeqSum(z) <= MaxSers}

\* the position (from 1) of series j of group g among all series
PosOf(z, g, j) == SeqSum(SubSeq(z, 1, g - 1)) + j

InitPlotArea(z, types, idxs, orders) ==
    [g \in 1..Len(z) |->
        [chart_type |-> types[g],
         sers |-> [j \in 1..z[g] |->
            OldSer(PosOf(z, g, j), idxs[PosOf(z, g, j)], orders[PosOf(z, g, j)],
                   SeriesXmlRewriterFactory(types[g]))]]]

\* c:order either repeats c:idx or follows document order
InitPlotAreas ==
    {InitPlotArea(t[1], t[2], t[3], IF t[4] THEN t[3] ELSE [i \in 1..Len(t[3]) |-> i - 1]) :
        t \in {u \in GroupSizes \X SeqsUpTo(RewriteTypes, MaxGroups)
                      \X (UNION {PermsOf(n) : n \in 0..MaxSers}) \X BOOLEAN :
                  /\ Len(u[2]) = Len(u[1])
                  /\ Len(u[3]) = SeqSum(u[1])}}

NoWorkbook == [updated |-> FALSE, data |-> NoData]

-----------------------------------------------------------------------------
(* Chart and Plot (pptx.chart.chart)                                        *)

\* random.getrandbits(IdBits)
AxisIds == 0..(2 ^ IdBits - 1)

\* the dict literal of Plot.has_axes: chart type, value
HasAxesTable ==
    {<<"AREA", TRUE>>, <<"AREA_STACKED", TRUE>>, <<"AREA_STACKED_100", TRUE>>,
     <<"BAR_CLUSTERED", TRUE>>, <<"BAR_STACKED", TRUE>>,
     <<"BAR_STACKED_100", TRUE>>,
     <<"BUBBLE", TRUE>>, <<"BUBBLE_THREE_D_EFFECT", TRUE>>,
     <<"COLUMN_CLUSTERED", TRUE>>, <<"COLUMN_STACKED", TRUE>>,
     <<"COLUMN_STACKED_100", TRUE>>,
     <<"DOUGHNUT", FALSE>>, <<"DOUGHNUT_EXPLODED", FALSE>>,
     <<"LINE", TRUE>>, <<"LINE_MARKERS", TRUE>>,
     <<"LINE_MARKERS_STACKED", TRUE>>, <<"LINE_MARKERS_STACKED_100", TRUE>>,
     <<"LINE_STACKED", TRUE>>, <<"LINE_STACKED_100", TRUE>>,
     <<"PIE", FALSE>>, <<"PIE_EXPLODED", FALSE>>,
     <<"RADAR", FALSE>>, <<"RADAR_FILLED", FALSE>>, <<"RADAR_MARKERS", FALSE>>,
     <<"XY_SCATTER", TRUE>>, <<"XY_SCATTER_LINES", TRUE>>,
     <<"XY_SCATTER_LINES_NO_MARKERS", TRUE>>, <<"XY_SCATTER_SMOOTH", TRUE>>,
     <<"XY_SCATTER_SMOOTH_NO_MARKERS", TRUE>>}

\* the chart types Plot.has_axes has a value for (KeyError for any other)
HasAxesKeys == {e[1] : e \in HasAxesTable}

\* Plot.has_axes
PlotHasAxes(chart_type) ==
    (CHOOSE e \in HasAxesTable : e[1] = chart_type)[2]

\* Plot.__init__
NewPlot(chart_type, series_seq, secondary_axis) ==
    [chart_type |-> chart_type, series_seq |-> series_seq,
     secondary_axis |-> secondary_axis,
     x_axis_id |-> None, y_axis_id |-> None]

\* Chart(data=None): no chart data
NoChartData == [cls |-> "NoneType", are_dates |-> FALSE, series |-> <<>>]

\* Chart.__init__; x and y are the two random draws
NewChart(data, x, y) ==
    [plots |-> <<>>, data |-> data, x_axis_id |-> x, y_axis_id |-> y,
     secondary_x_axis_id |-> None, secondary_y_axis_id |-> None,
     has_axes |-> TRUE]

NoPlot == NewPlot("none", <<>>, FALSE)

\* Chart.add_plot; rx and ry are the random draws used when the secondary
\* pair is allocated.  The result holds the chart, the plot and the error.
\* plot.has_axes is a KeyError for a chart type it has no value for.
AddPlot_NoCheck(ch, plot, rx, ry) ==
    LET axes == PlotHasAxes(plot.chart_type)
        alloc == axes /\ plot.secondary_axis /\ ch.secondary_x_axis_id = None
        sx == IF alloc THEN rx ELSE ch.secondary_x_axis_id
        sy == IF alloc THEN ry ELSE ch.secondary_y_axis_id
        p == IF axes
             THEN [plot EXCEPT
                     !.y_axis_id = IF plot.secondary_axis THEN sy ELSE ch.y_axis_id,
                     !.x_axis_id = IF plot.secondary_axis THEN sx ELSE ch.x_axis_id]
             ELSE plot
    IN IF plot.chart_type \notin HasAxesKeys
       THEN [chart |-> ch, plot |-> plot, err |-> "KeyError"]
       ELSE [chart |-> [ch EXCEPT !.plots = Append(ch.plots, p),
                                  !.secondary_x_axis_id = sx,
                                  !.secondary_y_axis_id = sy,
                                  !.has_axes = IF axes THEN ch.has_axes ELSE FALSE],
             plot |-> p, err |-> "ok"]

AddPlot_Realloc(ch, plot, rx, ry) ==
    LET axes == PlotHasAxes(plot.chart_type)
        alloc == axes /\ plot.secondary_axis
        sx == IF alloc THEN rx ELSE ch.secondary_x_axis_id
        sy == IF alloc THEN ry ELSE ch.secondary_y_axis_id
        p == IF axes
             THEN [plot EXCEPT
                     !.y_axis_id = IF plot.secondary_axis THEN sy ELSE ch.y_axis_id,
                     !.x_axis_id = IF plot.secondary_axis THEN sx ELSE ch.x_axis_id]
             ELSE plot
    IN IF plot.chart_type \notin HasAxesKeys
       THEN [chart |-> ch, plot |-> plot, err |-> "KeyError"]
       ELSE IF Len(ch.plots) > 0 /\ ch.has_axes # axes
       THEN [chart |-> ch, plot |-> plot, err |-> "ValueError"]
       ELSE [chart |-> [ch EXCEPT !.plots = Append(ch.plots, p),
                                  !.secondary_x_axis_id = sx,
                                  !.secondary_y_axis_id = sy,
                                  !.has_axes = IF axes THEN ch.has_axes ELSE FALSE],
             plot |-> p, err |-> "ok"]

AddPlot_LateCheck(ch, plot, rx, ry) ==
    LET axes == PlotHasAxes(plot.chart_type)
        alloc == axes /\ plot.secondary_axis /\ ch.secondary_x_axis_id = None
        sx == IF alloc THEN rx ELSE ch.secondary_x_axis_id
        sy == IF alloc THEN ry ELSE ch.secondary_y_axis_id
        p == IF axes
             THEN [plot EXCEPT
                     !.y_axis_id = IF plot.secondary_axis THEN sy ELSE ch.y_axis_id,
                     !.x_axis_id = IF plot.secondary_axis THEN sx ELSE ch.x_axis_id]
             ELSE plot
        set == [ch EXCEPT !.secondary_x_axis_id = sx,
                          !.secondary_y_axis_id = sy,
                          !.has_axes = IF axes THEN ch.has_axes ELSE FALSE]
    IN IF plot.chart_type \notin HasAxesKeys
       THEN [chart |-> ch, plot |-> plot, err |-> "KeyError"]
       ELSE IF Len(ch.plots) > 0 /\ ch.has_axes # axes
       THEN [chart |-> set, plot |-> p, err |-> "ValueError"]
       ELSE [chart |-> [set EXCEPT !.plots = Append(ch.plots, p)],
             plot |-> p, err |-> "ok"]

AddPlot(ch, plot, rx, ry) ==
    LET axes == PlotHasAxes(plot.chart_type)
        alloc == axes /\ plot.secondary_axis /\ ch.secondary_x_axis_id = None
        sx == IF alloc THEN rx ELSE ch.secondary_x_axis_id
        sy == IF alloc THEN ry ELSE ch.secondary_y_axis_id
        p == IF axes
             THEN [plot EXCEPT
                     !.y_axis_id = IF plot.secondary_axis THEN sy ELSE ch.y_axis_id,
                     !.x_axis_id = IF plot.secondary_axis THEN sx ELSE ch.x_axis_id]
             ELSE plot
    IN IF plot.chart_type \notin HasAxesKeys
       THEN [chart |-> ch, plot |-> plot, err |-> "KeyError"]
       ELSE IF Len(ch.plots) > 0 /\ ch.has_axes # axes
       THEN [chart |-> ch, plot |-> plot, err |-> "ValueError"]
       ELSE [chart |-> [ch EXCEPT !.plots = Append(ch.plots, p),
                                  !.secondary_x_axis_id = sx,
                                  !.secondary_y_axis_id = sy,
                                  !.has_axes = IF axes THEN ch.has_axes ELSE FALSE],
             plot |-> p, err |-> "ok"]

\* Chart.data (setter)
set_data(ch, values) == [ch EXCEPT !.data = values]

\* Plot.x_axis_id (setter)
set_x_axis_id(plot, value) == [plot EXCEPT !.x_axis_id = value]

\* Plot.y_axis_id (setter)
set_y_axis_id(plot, value) == [plot EXCEPT !.y_axis_id = value]

\* the chart types the model hands to add_plot: with axes, and without
AddTypes == {"COLUMN_CLUSTERED", "PIE", "RADAR"}

-----------------------------------------------------------------------------
(* Chart data handed to Chart(data) (pptx.chart.data)                       *)

ChartDataClasses == {"CategoryChartData", "XyChartData", "BubbleChartData"}

\* the shape of the series a chart data object of each class holds
ShapeOfClass(cls) ==
    IF cls = "CategoryChartData" THEN "category"
    ELSE IF cls = "XyChartData" THEN "xy"
    ELSE "bubble"

\* a chart data object of n series; are_dates is categories.are_dates, and
\* the series of chart data over date categories hold those categories
NewChartData(cls, are_dates, n) ==
    [cls |-> cls, are_dates |-> are_dates,
     series |-> [i \in 1..n |->
                   LET sd == VariantSeries(ShapeOfClass(cls), i - 1, "g")
                   IN IF are_dates THEN DateCategories(sd) ELSE sd]]

\* isinstance(chart.data, CategoryChartData)
IsCategoryChartData(data) == data.cls = "CategoryChartData"

-----------------------------------------------------------------------------
(* Plot writers (PlotXmlWriter and the _*ChartXmlWriter classes)            *)
(*   plot-group element == [tag, grouping, barDir, overlap, sers, axIds]    *)
(*   series element     == [idx, order, tx, cat, val, xVal, yVal, bubbleSize] *)

\* the dict literal of PlotXmlWriter: chart type, writer class
PlotXmlWriterTable ==
    {<<"AREA", "_AreaChartXmlWriter">>,
     <<"AREA_STACKED", "_AreaChartXmlWriter">>,
     <<"AREA_STACKED_100", "_AreaChartXmlWriter">>,
     <<"BAR_CLUSTERED", "_BarChartXmlWriter">>,
     <<"BAR_STACKED", "_BarChartXmlWriter">>,
     <<"BAR_STACKED_100", "_BarChartXmlWriter">>,
     <<"BUBBLE", "_BubbleChartXmlWriter">>,
     <<"BUBBLE_THREE_D_EFFECT", "_BubbleChartXmlWriter">>,
     <<"COLUMN_CLUSTERED", "_BarChartXmlWriter">>,
     <<"COLUMN_STACKED", "_BarChartXmlWriter">>,
     <<"COLUMN_STACKED_100", "_BarChartXmlWriter">>,
     <<"DOUGHNUT", "_DoughnutChartXmlWriter">>,
     <<"DOUGHNUT_EXPLODED", "_DoughnutChartXmlWriter">>,
     <<"LINE", "_LineChartXmlWriter">>,
     <<"LINE_MARKERS", "_LineChartXmlWriter">>,
     <<"LINE_MARKERS_STACKED", "_LineChartXmlWriter">>,
     <<"LINE_MARKERS_STACKED_100", "_LineChartXmlWriter">>,
     <<"LINE_STACKED", "_LineChartXmlWriter">>,
     <<"LINE_STACKED_100", "_LineChartXmlWriter">>,
     <<"PIE", "_PieChartXmlWriter">>,
     <<"PIE_EXPLODED", "_PieChartXmlWriter">>,
     <<"RADAR", "_RadarChartXmlWriter">>,
     <<"RADAR_FILLED", "_RadarChartXmlWriter">>,
     <<"RADAR_MARKERS", "_RadarChartXmlWriter">>,
     <<"XY_SCATTER", "_XyChartXmlWriter">>,
     <<"XY_SCATTER_LINES", "_XyChartXmlWriter">>,
     <<"XY_SCATTER_LINES_NO_MARKERS", "_XyChartXmlWriter">>,
     <<"XY_SCATTER_SMOOTH", "_XyChartXmlWriter">>,
     <<"XY_SCATTER_SMOOTH_NO_MARKERS", "_XyChartXmlWriter">>}

\* PlotXmlWriter: the writer class for a chart type; a KeyError of the
\* lookup is turned into NotImplementedError
PlotXmlWriter_Default(chart_type) ==
    IF \E e \in PlotXmlWriterTable : e[1] = chart_type
    THEN (CHOOSE e \in PlotXmlWriterTable : e[1] = chart_type)[2]
    ELSE "_BarChartXmlWriter"

PlotXmlWriter(chart_type) ==
    IF \E e \in PlotXmlWriterTable : e[1] = chart_type
    THEN (CHOOSE e \in PlotXmlWriterTable : e[1] = chart_type)[2]
    ELSE "NotImplementedError"

\* the element each writer's xml opens
GroupTag(writer) ==
    IF writer = "_AreaChartXmlWriter" THEN "c:areaChart"
    ELSE IF writer = "_BarChartXmlWriter" THEN "c:barChart"
    ELSE IF writer = "_BubbleChartXmlWriter" THEN "c:bubbleChart"
    ELSE IF writer = "_DoughnutChartXmlWriter" THEN "c:doughnutChart"
    ELSE IF writer = "_LineChartXmlWriter" THEN "c:lineChart"
    ELSE IF writer = "_PieChartXmlWriter" THEN "c:pieChart"
    ELSE IF writer = "_RadarChartXmlWriter" THEN "c:radarChart"
    ELSE "c:scatterChart"

\* the series writer each writer's _ser_xml builds its series with
SeriesWriterOf(writer) ==
    IF writer = "_BubbleChartXmlWriter" THEN "bubble"
    ELSE IF writer = "_XyChartXmlWriter" THEN "xy"
    ELSE "category"

\* _AreaChartXmlWriter._grouping_xml, _BarChartXmlWriter._grouping_xml,
\* _LineChartXmlWriter._grouping_xml: the value, "" when the writer emits no
\* grouping, or the exception
GroupingXml(writer, chart_type) ==
    IF writer = "_AreaChartXmlWriter" THEN
        IF chart_type = "AREA" THEN "standard"
        ELSE IF chart_type = "AREA_STACKED" THEN "stacked"
        ELSE IF chart_type = "AREA_STACKED_100" THEN "percentStacked"
        ELSE "KeyError"
    ELSE IF writer = "_BarChartXmlWriter" THEN
        IF chart_type \in {"BAR_CLUSTERED", "COLUMN_CLUSTERED"} THEN "clustered"
        ELSE IF chart_type \in {"BAR_STACKED", "COLUMN_STACKED"} THEN "stacked"
        ELSE IF chart_type \in {"BAR_STACKED_100", "COLUMN_STACKED_100"}
             THEN "percentStacked"
        ELSE "NotImplementedError"
    ELSE IF writer = "_LineChartXmlWriter" THEN
        IF chart_type \in {"LINE", "LINE_MARKERS"} THEN "standard"
        ELSE IF chart_type \in {"LINE_STACKED", "LINE_MARKERS_STACKED"} THEN "stacked"
        ELSE IF chart_type \in {"LINE_STACKED_100", "LINE_MARKERS_STACKED_100"}
             THEN "percentStacked"
        ELSE "NotImplementedError"
    ELSE ""

\* _BarChartXmlWriter._barDir_xml
BarDirXml(writer, chart_type) ==
    IF writer # "_BarChartXmlWriter" THEN ""
    ELSE IF chart_type \in {"BAR_CLUSTERED", "BAR_STACKED", "BAR_STACKED_100"}
         THEN "bar"
    ELSE IF chart_type \in {"COLUMN_CLUSTERED", "COLUMN_STACKED",
                            "COLUMN_STACKED_100"}
         THEN "col"
    ELSE "NotImplementedError"

\* _BarChartXmlWriter._overlap_xml
OverlapXml_PercentOnly(writer, chart_type) ==
    IF writer = "_BarChartXmlWriter"
       /\ chart_type \in {"BAR_STACKED_100", "COLUMN_STACKED_100"}
    THEN "100" ELSE ""

OverlapXml(writer, chart_type) ==
    IF writer = "_BarChartXmlWriter"
       /\ chart_type \in {"BAR_STACKED", "BAR_STACKED_100", "COLUMN_STACKED",
                          "COLUMN_STACKED_100"}
    THEN "100" ELSE ""

Exceptions == {"KeyError", "NotImplementedError", "AttributeError",
               "TypeError", "IndexError", "ValueError", "XMLSyntaxError"}

\* the series a writer's _ser_xml goes over: the plot's series_seq for the
\* bar and line writers, the first series of the chart data for the pie
\* writer, every series of the chart data for the others
SerSource(writer, data, plot) ==
    IF writer \in {"_BarChartXmlWriter", "_LineChartXmlWriter"}
    THEN [err |-> "ok", series |-> plot.series_seq]
    ELSE IF writer = "_PieChartXmlWriter"
    THEN IF data.cls = "NoneType" THEN [err |-> "AttributeError", series |-> <<>>]
         ELSE IF data.series = <<>> THEN [err |-> "IndexError", series |-> <<>>]
         ELSE [err |-> "ok", series |-> <<data.series[1]>>]
    ELSE IF data.cls = "NoneType" THEN [err |-> "TypeError", series |-> <<>>]
    ELSE [err |-> "ok", series |-> data.series]

\* the c:ser a writer emits for one series: idx and order are series.index
\* (0 in the pie writer), the children those of the writer's series writer
SerXml(writer, sd) ==
    LET fields == RewriterFields(SeriesWriterOf(writer))
        index == IF writer = "_PieChartXmlWriter" THEN 0 ELSE sd.index
        empty == [idx |-> index, order |-> index, tx |-> AbsentEl,
                  cat |-> AbsentEl, val |-> AbsentEl, xVal |-> AbsentEl,
                  yVal |-> AbsentEl, bubbleSize |-> AbsentEl]
    IN InsertFields(empty, fields, Len(fields), sd)

\* the exception the series writer raises on sd, or "ok": a series that
\* lacks an attribute the writer reads is an AttributeError
SerXmlErr(writer, sd) ==
    LET fields == RewriterFields(SeriesWriterOf(writer))
    IN IF \E k \in 1..Len(fields) : BuildErr(fields[k], sd) = "AttributeError"
       THEN "AttributeError" ELSE "ok"

\* _BaseChartXmlWriter._axis_ids: the pie and doughnut writers do not emit
\* it, every other writer interpolates plot.x_axis_id and plot.y_axis_id
AxisIdsXml(writer, plot) ==
    IF writer \in {"_PieChartXmlWriter", "_DoughnutChartXmlWriter"}
    THEN <<>>
    ELSE <<plot.x_axis_id, plot.y_axis_id>>

NoGroup == [tag |-> "", grouping |-> "", barDir |-> "", overlap |-> "",
            sers |-> <<>>, axIds |-> <<>>]

\* PlotXmlWriter(plot.chart_type, chart.data, plot).xml
PlotXml(chart_type, data, plot) ==
    LET writer == PlotXmlWriter(chart_type)
        barDir == BarDirXml(writer, chart_type)
        grouping == GroupingXml(writer, chart_type)
        src == SerSource(writer, data, plot)
        bad == {k \in 1..Len(src.series) : SerXmlErr(writer, src.series[k]) # "ok"}
    IN IF writer = "NotImplementedError"
       THEN [err |-> "NotImplementedError", el |-> NoGroup]
       ELSE IF barDir \in Exceptions THEN [err |-> barDir, el |-> NoGroup]
       ELSE IF grouping \in Exceptions THEN [err |-> grouping, el |-> NoGroup]
       ELSE IF src.err # "ok" THEN [err |-> src.err, el |-> NoGroup]
       ELSE IF bad # {} THEN [err |-> "AttributeError", el |-> NoGroup]
       ELSE [err |-> "ok",
             el |-> [tag |-> GroupTag(writer), grouping |-> grouping,
                     barDir |-> barDir,
                     overlap |-> OverlapXml(writer, chart_type),
                     sers |-> [k \in 1..Len(src.series) |->
                                  SerXml(writer, src.series[k])],
                     axIds |-> AxisIdsXml(writer, plot)]]

\* ChartXmlWriter.plots_xml: the plots in turn; the first exception ends it
RECURSIVE PlotsXml(_, _)
PlotsXml(data, plots) ==
    IF plots = <<>> THEN [err |-> "ok", els |-> <<>>]
    ELSE LET r == PlotXml(Head(plots).chart_type, data, Head(plots))
             rest == PlotsXml(data, Tail(plots))
         IN IF r.err # "ok" THEN [err |-> r.err, els |-> <<>>]
            ELSE IF rest.err # "ok" THEN rest
            ELSE [err |-> "ok", els |-> <<r.el>> \o rest.els]

-----------------------------------------------------------------------------
(* AxesXmlWriter                                                            *)
(*   axis element == [tag, axId, delete, axPos, majorGridlines, crossAx,    *)
(*                    crosses]                                              *)

\* AxesXmlWriter._y_axis_xml
YAxisXml(axis_id, cross_ax_id, secondary) ==
    [tag |-> "c:valAx", axId |-> axis_id, delete |-> "0",
     axPos |-> IF secondary THEN "r" ELSE "l",
     majorGridlines |-> ~secondary, crossAx |-> cross_ax_id,
     crosses |-> IF secondary THEN "max" ELSE "autoZero"]

\* AxesXmlWriter._x_axis_xml: a c:dateAx for date categories, a c:catAx for
\* other categories, NotImplementedError for any other chart data
XAxisXml(data, axis_id, cross_ax_id, secondary) ==
    IF ~IsCategoryChartData(data)
    THEN [err |-> "NotImplementedError", el |-> <<>>]
    ELSE IF data.are_dates
    THEN [err |-> "ok",
          el |-> [tag |-> "c:dateAx", axId |-> axis_id,
                  delete |-> IF secondary THEN "1" ELSE "0", axPos |-> "b",
                  majorGridlines |-> FALSE, crossAx |-> cross_ax_id,
                  crosses |-> ""]]
    ELSE [err |-> "ok",
          el |-> [tag |-> "c:catAx", axId |-> axis_id, delete |-> "0",
                  axPos |-> "b", majorGridlines |-> FALSE,
                  crossAx |-> cross_ax_id, crosses |-> ""]]

\* AxesXmlWriter.xml: the primary pair always, the secondary pair when
\* chart.secondary_y_axis_id is set; value axis before category axis
AxesXml(ch) ==
    LET y1 == YAxisXml(ch.y_axis_id, ch.x_axis_id, FALSE)
        x1 == XAxisXml(ch.data, ch.x_axis_id, ch.y_axis_id, FALSE)
        y2 == YAxisXml(ch.secondary_y_axis_id, ch.secondary_x_axis_id, TRUE)
        x2 == XAxisXml(ch.data, ch.secondary_x_axis_id,
                       ch.secondary_y_axis_id, TRUE)
    IN IF x1.err # "ok" THEN [err |-> x1.err, els |-> <<>>]
       ELSE IF ch.secondary_y_axis_id = None
       THEN [err |-> "ok", els |-> <<y1, x1.el>>]
       ELSE [err |-> "ok", els |-> <<y1, x1.el, y2, x2.el>>]

-----------------------------------------------------------------------------
(* ChartXmlWriter                                                           *)
(*   document == [children]: the children of c:plotArea after c:layout, in  *)
(*   document order                                                         *)

\* ChartXmlWriter.axes_xml
ChartAxesXml(ch) ==
    IF ch.has_axes THEN AxesXml(ch) ELSE [err |-> "ok", els |-> <<>>]

\* ChartXmlWriter.xml (Chart.xml_bytes): plots_xml, then axes_xml
ChartXml_PlotsReversed(ch) ==
    LET p == PlotsXml(ch.data, [i \in 1..Len(ch.plots) |->
                                   ch.plots[Len(ch.plots) + 1 - i]])
        a == ChartAxesXml(ch)
    IN IF p.err # "ok" THEN [err |-> p.err, doc |-> [children |-> <<>>]]
       ELSE IF a.err # "ok" THEN [err |-> a.err, doc |-> [children |-> <<>>]]
       ELSE [err |-> "ok", doc |-> [children |-> p.els \o a.els]]

ChartXml(ch) ==
    LET p == PlotsXml(ch.data, ch.plots)
        a == ChartAxesXml(ch)
    IN IF p.err # "ok" THEN [err |-> p.err, doc |-> [children |-> <<>>]]
       ELSE IF a.err # "ok" THEN [err |-> a.err, doc |-> [children |-> <<>>]]
       ELSE [err |-> "ok", doc |-> [children |-> p.els \o a.els]]

-----------------------------------------------------------------------------
(* Series writers, text form: tx_xml, cat_xml, val_xml, xVal_xml, yVal_xml, *)
(* bubbleSize_xml, as the plot writers interpolate them.                    *)
(*   fragment == [kind, f, formatCode, ptCount, pts, strs, lvls]            *)
(* f and formatCode are the text placed in c:f and c:formatCode; pts is the *)
(* sequence of (idx, value) of the c:pt of a numeric cache, strs the        *)
(* sequence of (idx, text) of the c:pt of a string cache, lvls the sequence *)
(* of c:lvl, each a sequence of (idx, text).                                *)

\* Categories (pptx.chart.data): [are_numeric, number_format, paths]; paths
\* holds, for every leaf category in order, its labels from the top level
\* down to the leaf
Depth(categories) ==
    IF categories.paths = <<>> THEN 0 ELSE Len(categories.paths[1])

LeafCount(categories) == Len(categories.paths)

\* the (idx, label) pairs of the level at depth position p (1 is the top
\* level): one per leaf at the leaf level, one per run of leaves below the
\* same category at a higher level, idx being the position of its first leaf
LevelAt(categories, p) ==
    LET paths == categories.paths
        IsStart(i) == \/ p = Depth(categories)
                      \/ i = 1
                      \/ SubSeq(paths[i], 1, p) # SubSeq(paths[i - 1], 1, p)
        starts == SelectSeq([i \in 1..Len(paths) |-> i], IsStart)
    IN [k \in 1..Len(starts) |-> <<starts[k] - 1, paths[starts[k]][p]>>]

\* Categories.levels: the levels from the leaf level up to the top level
Levels(categories) ==
    [k \in 1..Depth(categories) |->
        LevelAt(categories, Depth(categories) + 1 - k)]

\* len(series)
SeriesLen(sd) ==
    IF sd.shape = "category" THEN Len(sd.values) ELSE Len(sd.x_values)

Frag(kind, f, formatCode, ptCount, pts, strs, lvls) ==
    [kind |-> kind, f |-> f, formatCode |-> formatCode, ptCount |-> ptCount,
     pts |-> pts, strs |-> strs, lvls |-> lvls]

AbsentFrag == Frag("absent", <<>>, <<>>, 0, <<>>, <<>>, <<>>)

\* the c:pt a loop over enumerate(values) emits: one for every position
\* whose value is not None, idx the position
PtSeq(values) ==
    LET emitted == SelectSeq([i \in 1..Len(values) |-> i],
                             LAMBDA i : values[i] # None)
    IN [k \in 1..Len(emitted) |-> <<emitted[k] - 1, values[emitted[k]]>>]

\* _BaseSeriesXmlWriter.pt_xml: c:ptCount and the c:pt elements
pt_xml_Dense(values) ==
    LET emitted == SelectSeq([i \in 1..Len(values) |-> i],
                             LAMBDA i : values[i] # None)
    IN [ptCount |-> Len(emitted),
        pts |-> [k \in 1..Len(emitted) |-> <<k - 1, values[emitted[k]]>>]]

pt_xml(values) == [ptCount |-> Len(values), pts |-> PtSeq(values)]

\* _BaseSeriesXmlWriter.numRef_xml: wksht_ref and number_format are
\* interpolated as they are
numRef_xml(kind, wksht_ref, number_format, values) ==
    Frag(kind, wksht_ref, number_format, pt_xml(values).ptCount,
         pt_xml(values).pts, <<>>, <<>>)

\* _BaseSeriesXmlWriter.tx_xml: the name is escaped, name_ref is not
tx_xml(sd) ==
    Frag("tx", sd.name_ref, <<>>, 1, <<>>, <<<<0, Escape(sd.name)>>>>, <<>>)

\* _CategorySeriesXmlWriter._cat_num_pt_xml: the label of a numeric category
\* is held as the text category.numeric_str_val gives
cat_num_pt_xml(categories) ==
    [i \in 1..Len(categories.paths) |-> <<i - 1, categories.paths[i][1]>>]

\* _CategorySeriesXmlWriter._cat_pt_xml
cat_pt_xml(categories) ==
    [i \in 1..Len(categories.paths) |->
        <<i - 1, Escape(categories.paths[i][1])>>]

\* _CategorySeriesXmlWriter._lvl_xml: one c:lvl per level of
\* categories.levels, each label escaped
lvl_xml_LeavesOnly(categories) ==
    IF Levels(categories) = <<>> THEN <<>>
    ELSE <<[j \in 1..Len(Levels(categories)[1]) |->
              <<Levels(categories)[1][j][1],
                Escape(Levels(categories)[1][j][2])>>]>>

lvl_xml(categories) ==
    [k \in 1..Len(Levels(categories)) |->
        [j \in 1..Len(Levels(categories)[k]) |->
            <<Levels(categories)[k][j][1],
              Escape(Levels(categories)[k][j][2])>>]]

\* _CategorySeriesXmlWriter.cat_xml
cat_xml(sd) ==
    LET categories == sd.categories
    IN IF categories.are_numeric
       THEN Frag("cat:numRef", sd.categories_ref, categories.number_format,
                 LeafCount(categories), cat_num_pt_xml(categories), <<>>, <<>>)
       ELSE IF Depth(categories) = 1
       THEN Frag("cat:strRef", sd.categories_ref, <<>>, LeafCount(categories),
                 <<>>, cat_pt_xml(categories), <<>>)
       ELSE Frag("cat:multiLvlStrRef", sd.categories_ref, <<>>,
                 LeafCount(categories), <<>>, <<>>, lvl_xml(categories))

\* _CategorySeriesXmlWriter.val_xml with _val_pt_xml: values_ref and
\* number_format are interpolated as they are
val_xml(sd) ==
    Frag("val", sd.values_ref, sd.number_format, SeriesLen(sd),
         PtSeq(sd.values), <<>>, <<>>)

\* _XySeriesXmlWriter.xVal_xml, yVal_xml; _BubbleSeriesXmlWriter.bubbleSize_xml
xVal_xml(sd) == numRef_xml("xVal", sd.x_values_ref, sd.number_format, sd.x_values)
yVal_xml(sd) == numRef_xml("yVal", sd.y_values_ref, sd.number_format, sd.y_values)
bubbleSize_xml(sd) ==
    numRef_xml("bubbleSize", sd.bubble_sizes_ref, sd.number_format,
               sd.bubble_sizes)

\* the fragments a plot writer's _ser_xml interpolates for one series: those
\* of the category, XY or bubble series writer
ser_xml(sd) ==
    [tx |-> tx_xml(sd),
     cat |-> IF sd.shape = "category" THEN cat_xml(sd) ELSE AbsentFrag,
     val |-> IF sd.shape = "category" THEN val_xml(sd) ELSE AbsentFrag,
     xVal |-> IF sd.shape = "category" THEN AbsentFrag ELSE xVal_xml(sd),
     yVal |-> IF sd.shape = "category" THEN AbsentFrag ELSE yVal_xml(sd),
     bubbleSize |-> IF sd.shape = "bubble" THEN bubbleSize_xml(sd)
                    ELSE AbsentFrag]

\* the series data objects the series writers are applied to
MaxLen == 3      \* values of a series
MaxCats == 3     \* leaf categories
MaxDepth == 2    \* levels of the categories

Values == {0, 10, 30}
Texts == {<<"a">>, <<"a", "&", "b">>, <<"<", "b", ">">>}
Labels == {<<"a">>, <<"&", "<", ">">>}

StringCategories(paths) ==
    [are_numeric |-> FALSE, number_format |-> <<>>, paths |-> paths]

NumericCategories(number_format) ==
    [are_numeric |-> TRUE, number_format |-> number_format,
     paths |-> <<<<<<"1">>>>, <<<<"2">>>>>>]

AllCategories ==
    {StringCategories(paths) :
        paths \in UNION {[1..n -> [1..d -> Labels]] :
                            n \in 0..MaxCats, d \in 1..MaxDepth}}
    \cup {NumericCategories(number_format) : number_format \in Texts}

\* a series data object; sheet is the text the worksheet references open with
WriterSeries(shape, name, number_format, sheet, categories, vals) ==
    [shape |-> shape, index |-> 0, name |-> name,
     number_format |-> number_format,
     name_ref |-> sheet \o <<"!name">>,
     categories_ref |-> sheet \o <<"!categories">>,
     values_ref |-> sheet \o <<"!values">>,
     x_values_ref |-> sheet \o <<"!x_values">>,
     y_values_ref |-> sheet \o <<"!y_values">>,
     bubble_sizes_ref |-> sheet \o <<"!bubble_sizes">>,
     categories |-> categories,
     values |-> IF shape = "category" THEN vals ELSE <<>>,
     x_values |-> IF shape = "category" THEN <<>> ELSE vals,
     y_values |-> IF shape = "category" THEN <<>> ELSE vals,
     bubble_sizes |-> IF shape = "bubble" THEN vals ELSE <<>>]

\* every sequence of values of every shape; every categories object; every
\* combination of name, number format and worksheet text
WriterInputs ==
    {WriterSeries(shape, <<"a">>, <<"0">>, <<"S">>,
                  StringCategories(<<<<<<"a">>>>>>), vals) :
        shape \in Shapes, vals \in SeqsUpTo(Values \cup {None}, MaxLen)}
    \cup {WriterSeries("category", <<"a">>, <<"0">>, <<"S">>, categories,
                       <<10, None, 30>>) :
             categories \in AllCategories}
    \cup {WriterSeries(shape, name, number_format, sheet,
                       StringCategories(<<<<<<"a">>>>>>), <<10, None, 30>>) :
             shape \in Shapes, name \in Texts, number_format \in Texts,
             sheet \in Texts}

NoSeries == WriterSeries("none", <<>>, <<>>, <<>>, StringCategories(<<>>), <<>>)

NoWritten == [tx |-> AbsentFrag, cat |-> AbsentFrag, val |-> AbsentFrag,
              xVal |-> AbsentFrag, yVal |-> AbsentFrag,
              bubbleSize |-> AbsentFrag]

-----------------------------------------------------------------------------
(* _Chart: the proxy over a loaded c:chartSpace                             *)
(*   chartSpace == [catAx_lst, dateAx_lst, valAx_lst]                       *)
(*   axis element == [tag, pos, delete]; pos is its position in its list    *)

MaxAxes == 2     \* axis elements of one kind in a loaded chart

NoEl == [tag |-> "None", pos |-> 0, delete |-> 0]

\* the axis elements of one tag, with the given c:delete values
AxisLst(tag, deletes) ==
    [i \in 1..Len(deletes) |-> [tag |-> tag, pos |-> i, delete |-> deletes[i]]]

ChartSpaces ==
    {[catAx_lst |-> AxisLst("c:catAx", c), dateAx_lst |-> AxisLst("c:dateAx", d),
      valAx_lst |-> AxisLst("c:valAx", v)] :
        c \in SeqsUpTo({0, 1}, MaxAxes), d \in SeqsUpTo({0, 1}, MaxAxes),
        v \in SeqsUpTo({0, 1}, MaxAxes)}

NoChartSpace == [catAx_lst |-> <<>>, dateAx_lst |-> <<>>, valAx_lst |-> <<>>]

NoAxisResult == [op |-> "none", err |-> "none", proxy |-> "none", el |-> NoEl]

\* get_first_non_deleted of _Chart.category_axis: the first element whose
\* c:delete is not 1, None when there is none
get_first_non_deleted(seq) ==
    LET kept == SelectSeq(seq, LAMBDA el : el.delete # 1)
    IN IF kept = <<>> THEN NoEl ELSE kept[1]

\* _Chart.category_axis
category_axis(cs) ==
    IF cs.catAx_lst # <<>>
    THEN [op |-> "category_axis", err |-> "ok", proxy |-> "CategoryAxis",
          el |-> get_first_non_deleted(cs.catAx_lst)]
    ELSE IF cs.dateAx_lst # <<>>
    THEN [op |-> "category_axis", err |-> "ok", proxy |-> "DateAxis",
          el |-> get_first_non_deleted(cs.dateAx_lst)]
    ELSE IF cs.valAx_lst # <<>>
    THEN [op |-> "category_axis", err |-> "ok", proxy |-> "ValueAxis",
          el |-> get_first_non_deleted(cs.valAx_lst)]
    ELSE [op |-> "category_axis", err |-> "ValueError", proxy |-> "none",
          el |-> NoEl]

\* _Chart.value_axis(idx)
value_axis(cs, idx) ==
    IF cs.valAx_lst = <<>>
    THEN [op |-> "value_axis", err |-> "ValueError", proxy |-> "none",
          el |-> NoEl]
    ELSE IF idx >= Len(cs.valAx_lst)
    THEN [op |-> "value_axis", err |-> "IndexError", proxy |-> "none",
          el |-> NoEl]
    ELSE [op |-> "value_axis", err |-> "ok", proxy |-> "ValueAxis",
          el |-> cs.valAx_lst[idx + 1]]

-----------------------------------------------------------------------------
(* CT_Layout and CT_ManualLayout (pptx/oxml/chart/shared.py)                *)
(*   layout == [manualLayout, xMode, x_, yMode, y_, w, h]: whether          *)
(*   c:manualLayout is present, and the val of its c:xMode, c:x, c:yMode,   *)
(*   c:y, c:w and c:h children ("absent" / None when the child is absent)   *)

MaxOffset == 3   \* the offsets assigned are 0..MaxOffset

Offsets == 0..MaxOffset

NoLayout == [manualLayout |-> FALSE, xMode |-> "absent", x_ |-> None,
             yMode |-> "absent", y_ |-> None, w |-> None, h |-> None]

NoLayoutOp == [op |-> "none", arg |-> None, err |-> "none", value |-> None]

\* the c:layout elements of a loaded chart
Layouts ==
    {NoLayout}
    \cup {[manualLayout |-> TRUE, xMode |-> m, x_ |-> x, yMode |-> "absent",
           y_ |-> None, w |-> None, h |-> None] :
             m \in {"absent", "factor", "edge"}, x \in Offsets \cup {None}}

\* self.get_or_add_manualLayout()
get_or_add_manualLayout(l) ==
    IF l.manualLayout THEN l ELSE [NoLayout EXCEPT !.manualLayout = TRUE]

\* CT_ManualLayout.x (getter): x = self.x calls the getter again, without
\* end; the interpreter ends it with RecursionError
ManualLayout_x(l) == [err |-> "RecursionError", value |-> None]

\* CT_ManualLayout.horz_offset (getter): x, xMode = self.x, self.xMode reads
\* the property x first
ManualLayout_horz_offset(l) ==
    LET x == ManualLayout_x(l)
    IN IF x.err # "ok" THEN x
       ELSE IF l.x_ = None \/ l.xMode # "factor"
       THEN [err |-> "ok", value |-> 0]
       ELSE [err |-> "ok", value |-> l.x_]

\* CT_Layout.horz_offset (getter)
horz_offset(l) ==
    IF ~l.manualLayout THEN [err |-> "ok", value |-> 0]
    ELSE ManualLayout_horz_offset(l)

\* CT_Layout.horz_offset (setter) with CT_ManualLayout.horz_offset (setter)
set_horz_offset(l, offset) ==
    IF offset = 0 THEN NoLayout
    ELSE [get_or_add_manualLayout(l) EXCEPT !.xMode = "factor", !.x_ = offset]

\* CT_Layout.x (setter) with CT_ManualLayout.x (setter)
set_x(l, value) ==
    [get_or_add_manualLayout(l) EXCEPT !.xMode = "edge", !.x_ = value]

\* CT_Layout.y (setter) with CT_ManualLayout.y (setter)
set_y(l, value) ==
    [get_or_add_manualLayout(l) EXCEPT !.yMode = "edge", !.y_ = value]

\* CT_Layout.width (setter) with CT_ManualLayout.width (setter)
set_width(l, value) ==
    [get_or_add_manualLayout(l) EXCEPT !.w = value]

\* CT_Layout.height (setter) with CT_ManualLayout.height (setter)
set_height(l, value) ==
    [get_or_add_manualLayout(l) EXCEPT !.h = value]

-----------------------------------------------------------------------------
(* Specification of the series reconciler                                   *)

RewriteRest ==
    /\ before = <<>>
    /\ result = "none"
    /\ lastData = NoData
    /\ lastRewriter = "none"
    /\ lastVia = "none"
    /\ workbook = NoWorkbook
    /\ calls = 0

ChartRest ==
    /\ chart = NewChart(NoChartData, 0, 0)
    /\ addResult = "none"
    /\ addedPlot = NoPlot
    /\ adds = 0
    /\ assigned = <<>>

NoDoc == [children |-> <<>>]

NoDispatch == [chart_type |-> "none", chart_data |-> "none", writer |-> "none",
               rewriter |-> "none"]

RenderRest ==
    /\ doc = NoDoc
    /\ renderResult = "none"
    /\ dispatch = NoDispatch

\* the variables of the series writer, the axis lookups and the layout
\* element, in the specifications that do not use them
WriterRest ==
    /\ series = NoSeries
    /\ written = NoWritten

AxisRest ==
    /\ chartSpace = NoChartSpace
    /\ axisResult = NoAxisResult

LayoutRest ==
    /\ layout = NoLayout
    /\ layoutOp = NoLayoutOp

AuxRest == WriterRest /\ AxisRest /\ LayoutRest

Init ==
    /\ plotArea \in InitPlotAreas
    /\ RewriteRest
    /\ ChartRest
    /\ RenderRest
    /\ AuxRest

\* _Chart.replace_data(chart_data): the rewriter is chosen from the chart
\* type of the first plot; the workbook is updated once the rewrite returned
ReplaceData ==
    /\ calls < MaxCalls
    /\ \E chart_data \in ChartDatas :
        /\ before' = plotArea
        /\ lastData' = chart_data
        /\ lastVia' = "replace_data"
        /\ calls' = calls + 1
        /\ IF Len(plotArea) = 0
           THEN /\ result' = "IndexError"
                /\ lastRewriter' = "none"
                /\ UNCHANGED <<plotArea, workbook>>
           ELSE LET rewriter == SeriesXmlRewriterFactory(ChartTypeOf(plotArea))
                    r == ReplaceSeriesData(rewriter, plotArea, chart_data)
                IN /\ lastRewriter' = rewriter
                   /\ plotArea' = r.pa
                   /\ result' = r.err
                   /\ workbook' = IF r.err = "ok"
                                  THEN [updated |-> TRUE, data |-> chart_data]
                                  ELSE workbook
    /\ UNCHANGED chartVars
    /\ UNCHANGED renderVars
    /\ UNCHANGED auxVars

\* rewriter.replace_series_data(chartSpace) on a rewriter of any family,
\* built for chart data of its own shape
ReplaceSeriesDataCall ==
    /\ calls < MaxCalls
    /\ \E rewriter \in Shapes :
        \E chart_data \in ChartDataOf(rewriter) :
            LET r == ReplaceSeriesData(rewriter, plotArea, chart_data)
            IN /\ before' = plotArea
               /\ lastData' = chart_data
               /\ lastVia' = "replace_series_data"
               /\ lastRewriter' = rewriter
               /\ calls' = calls + 1
               /\ plotArea' = r.pa
               /\ result' = r.err
    /\ UNCHANGED <<workbook>>
    /\ UNCHANGED chartVars
    /\ UNCHANGED renderVars
    /\ UNCHANGED auxVars

Next == ReplaceData \/ ReplaceSeriesDataCall

Spec == Init /\ [][Next]_vars

-----------------------------------------------------------------------------
(* Specification of Chart.add_plot                                          *)

\* the chart data a rendered chart is built with: none, or data of each
\* class with no series or MaxChartSeries series
RenderDatas ==
    {NoChartData}
    \cup {NewChartData("CategoryChartData", d, n) :
             d \in BOOLEAN, n \in {0, MaxChartSeries}}
    \cup {NewChartData(cls, FALSE, n) :
             cls \in {"XyChartData", "BubbleChartData"}, n \in {0, MaxChartSeries}}

\* the values assigned to a plot's axis id: unset, or the largest id
AssignedIds == {None, 2 ^ IdBits - 1}

\* the values assigned to chart.data: none, or category chart data
AssignedDatas ==
    {NoChartData, NewChartData("CategoryChartData", FALSE, MaxChartSeries)}

\* the calls made on the chart so far
SetupCalls == adds + Len(assigned)

InitChart ==
    /\ plotArea = <<>>
    /\ RewriteRest
    /\ \E x \in AxisIds, y \in AxisIds :
        chart = NewChart(NoChartData, x, y)
    /\ addResult = "none"
    /\ addedPlot = NoPlot
    /\ adds = 0
    /\ assigned = <<>>
    /\ RenderRest
    /\ AuxRest

\* chart.add_plot(Plot(chart_type, series, secondary_axis))
AddPlotCall ==
    /\ adds < MaxPlots
    /\ \E chart_type \in AddTypes, secondary_axis \in BOOLEAN,
          rx \in AxisIds, ry \in AxisIds :
        LET r == AddPlot(chart, NewPlot(chart_type, <<>>, secondary_axis), rx, ry)
        IN /\ chart' = r.chart
           /\ addedPlot' = r.plot
           /\ addResult' = r.err
           /\ adds' = adds + 1
    /\ UNCHANGED assigned
    /\ UNCHANGED rewriteVars
    /\ UNCHANGED renderVars
    /\ UNCHANGED auxVars

\* chart.data = values, on a chart not yet rendered
SetData ==
    /\ Len(assigned) < MaxAssigns
    /\ SetupCalls < MaxSetupCalls
    /\ renderResult = "none"
    /\ \E values \in AssignedDatas :
        /\ chart' = set_data(chart, values)
        /\ assigned' = Append(assigned, <<"data", 0>>)
    /\ UNCHANGED <<addResult, addedPlot, adds>>
    /\ UNCHANGED rewriteVars
    /\ UNCHANGED renderVars
    /\ UNCHANGED auxVars

\* the plot handed to the last add_plot call is the last plot of the chart
\* when that call returned
AddedIs(i) == addResult = "ok" /\ i = Len(chart.plots)

\* chart.plots[i].x_axis_id = value, on a chart not yet rendered
SetXAxisId ==
    /\ Len(assigned) < MaxAssigns
    /\ SetupCalls < MaxSetupCalls
    /\ renderResult = "none"
    /\ \E i \in 1..Len(chart.plots), value \in AssignedIds :
        /\ chart' = [chart EXCEPT !.plots[i] = set_x_axis_id(chart.plots[i], value)]
        /\ addedPlot' = IF AddedIs(i) THEN set_x_axis_id(addedPlot, value)
                        ELSE addedPlot
        /\ assigned' = Append(assigned, <<"x_axis_id", i>>)
    /\ UNCHANGED <<addResult, adds>>
    /\ UNCHANGED rewriteVars
    /\ UNCHANGED renderVars
    /\ UNCHANGED auxVars

\* chart.plots[i].y_axis_id = value, on a chart not yet rendered
SetYAxisId ==
    /\ Len(assigned) < MaxAssigns
    /\ SetupCalls < MaxSetupCalls
    /\ renderResult = "none"
    /\ \E i \in 1..Len(chart.plots), value \in AssignedIds :
        /\ chart' = [chart EXCEPT !.plots[i] = set_y_axis_id(chart.plots[i], value)]
        /\ addedPlot' = IF AddedIs(i) THEN set_y_axis_id(addedPlot, value)
                        ELSE addedPlot
        /\ assigned' = Append(assigned, <<"y_axis_id", i>>)
    /\ UNCHANGED <<addResult, adds>>
    /\ UNCHANGED rewriteVars
    /\ UNCHANGED renderVars
    /\ UNCHANGED auxVars

NextChart == AddPlotCall \/ SetData \/ SetXAxisId \/ SetYAxisId

SpecChart == InitChart /\ [][NextChart]_vars

-----------------------------------------------------------------------------
(* Specification of the chart document writer                               *)

\* the chart types of the plots of a chart of several plots
MultiTypes == {"COLUMN_CLUSTERED", "LINE", "AREA"}

\* the series lists a plot is built with: none, the first or all of the
\* chart data's series
SeriesSeqs(data) ==
    {<<>>, data.series}
    \cup (IF data.series = <<>> THEN {} ELSE {<<data.series[1]>>})

\* the chart types of the plots put on the secondary axes
SecondaryTypes == {"LINE", "AREA"}

\* the plots handed to add_plot of a chart that is to be rendered.  On the
\* primary axes: a first plot of any chart type, a further plot of a type of
\* MultiTypes, over each series list of SeriesSeqs.  On the secondary axes:
\* a plot of a type of SecondaryTypes over the first series of category chart
\* data that has series.
RenderPlots(ch) ==
    {NewPlot(chart_type, series_seq, FALSE) :
        chart_type \in (IF ch.plots = <<>> THEN AllTypes ELSE MultiTypes),
        series_seq \in SeriesSeqs(ch.data)}
    \cup (IF IsCategoryChartData(ch.data) /\ ch.data.series # <<>>
          THEN {NewPlot(chart_type, <<ch.data.series[1]>>, TRUE) :
                   chart_type \in SecondaryTypes}
          ELSE {})

InitRender ==
    /\ plotArea = <<>>
    /\ RewriteRest
    /\ \E data \in RenderDatas, x \in AxisIds, y \in AxisIds :
        chart = NewChart(data, x, y)
    /\ addResult = "none"
    /\ addedPlot = NoPlot
    /\ adds = 0
    /\ assigned = <<>>
    /\ RenderRest
    /\ AuxRest

\* chart.add_plot(plot) on a chart not yet rendered, for the plots of
\* RenderPlots.  Further plots are added to charts of category chart data
\* that has series and whose plots are of the types of MultiTypes.
AddPlotRender ==
    /\ adds < MaxRenderPlots
    /\ SetupCalls < MaxSetupCalls
    /\ renderResult = "none"
    /\ adds > 0 =>
        /\ IsCategoryChartData(chart.data)
        /\ chart.data.series # <<>>
        /\ Len(chart.plots) = adds
        /\ \A i \in 1..Len(chart.plots) : chart.plots[i].chart_type \in MultiTypes
    /\ \E plot \in RenderPlots(chart), rx \in AxisIds, ry \in AxisIds :
        LET r == AddPlot(chart, plot, rx, ry)
        IN /\ chart' = r.chart
           /\ addedPlot' = r.plot
           /\ addResult' = r.err
           /\ adds' = adds + 1
    /\ UNCHANGED assigned
    /\ UNCHANGED rewriteVars
    /\ UNCHANGED renderVars
    /\ UNCHANGED auxVars

\* chart.xml_bytes()
XmlBytes ==
    /\ renderResult = "none"
    /\ LET r == ChartXml(chart)
       IN /\ doc' = r.doc
          /\ renderResult' = r.err
    /\ UNCHANGED dispatch
    /\ UNCHANGED rewriteVars
    /\ UNCHANGED chartVars
    /\ UNCHANGED auxVars

NextRender == AddPlotRender \/ XmlBytes \/ SetData \/ SetXAxisId \/ SetYAxisId

SpecRender == InitRender /\ [][NextRender]_vars

-----------------------------------------------------------------------------
(* Specification of the factories                                           *)

\* PlotXmlWriter(chart_type, chart.data, plot) and
\* SeriesXmlRewriterFactory(chart_type, chart.data) called with any chart type
FactoryCall ==
    /\ dispatch = NoDispatch
    /\ \E chart_type \in AllTypes :
        dispatch' = [chart_type |-> chart_type,
                     chart_data |-> chart.data.cls,
                     writer |-> PlotXmlWriter(chart_type),
                     rewriter |-> SeriesXmlRewriterFactory(chart_type)]
    /\ UNCHANGED <<doc, renderResult>>
    /\ UNCHANGED rewriteVars
    /\ UNCHANGED chartVars
    /\ UNCHANGED auxVars

NextFactory == FactoryCall

SpecFactory == InitRender /\ [][NextFactory]_vars

-----------------------------------------------------------------------------
(* Specification of the series writers                                      *)

InitWriter ==
    /\ plotArea = <<>>
    /\ RewriteRest
    /\ ChartRest
    /\ RenderRest
    /\ series \in WriterInputs
    /\ written = NoWritten
    /\ AxisRest
    /\ LayoutRest

\* the series writer of the family of the series produces its fragments
WriteSeries ==
    /\ written = NoWritten
    /\ written' = ser_xml(series)
    /\ UNCHANGED series
    /\ UNCHANGED <<rewriteVars, chartVars, renderVars, axisVars, layoutVars>>

NextWriter == WriteSeries

SpecWriter == InitWriter /\ [][NextWriter]_vars

-----------------------------------------------------------------------------
(* Specification of the axis lookups of _Chart                              *)

InitAxis ==
    /\ plotArea = <<>>
    /\ RewriteRest
    /\ ChartRest
    /\ RenderRest
    /\ WriterRest
    /\ chartSpace \in ChartSpaces
    /\ axisResult = NoAxisResult
    /\ LayoutRest

\* chart.category_axis
CategoryAxisCall ==
    /\ axisResult' = category_axis(chartSpace)
    /\ UNCHANGED chartSpace
    /\ UNCHANGED <<rewriteVars, chartVars, renderVars, writerVars, layoutVars>>

\* chart.value_axis(idx)
ValueAxisCall ==
    /\ \E idx \in 0..(MaxAxes - 1) :
        axisResult' = value_axis(chartSpace, idx)
    /\ UNCHANGED chartSpace
    /\ UNCHANGED <<rewriteVars, chartVars, renderVars, writerVars, layoutVars>>

NextAxis == CategoryAxisCall \/ ValueAxisCall

SpecAxis == InitAxis /\ [][NextAxis]_vars

-----------------------------------------------------------------------------
(* Specification of the c:layout element                                    *)

InitLayout ==
    /\ plotArea = <<>>
    /\ RewriteRest
    /\ ChartRest
    /\ RenderRest
    /\ WriterRest
    /\ AxisRest
    /\ layout \in Layouts
    /\ layoutOp = NoLayoutOp

LayoutIdle ==
    UNCHANGED <<rewriteVars, chartVars, renderVars, writerVars, axisVars>>

\* layout.horz_offset = offset
SetHorzOffset ==
    /\ \E offset \in Offsets :
        /\ layout' = set_horz_offset(layout, offset)
        /\ layoutOp' = [op |-> "set_horz_offset", arg |-> offset,
                        err |-> "ok", value |-> None]
    /\ LayoutIdle

\* layout.horz_offset
GetHorzOffset ==
    /\ layoutOp' = [op |-> "horz_offset", arg |-> None,
                    err |-> horz_offset(layout).err,
                    value |-> horz_offset(layout).value]
    /\ UNCHANGED layout
    /\ LayoutIdle

\* layout.x = value
SetX ==
    /\ \E value \in Offsets :
        /\ layout' = set_x(layout, value)
        /\ layoutOp' = [op |-> "set_x", arg |-> value, err |-> "ok",
                        value |-> None]
    /\ LayoutIdle

\* layout.y = value
SetY ==
    /\ \E value \in Offsets :
        /\ layout' = set_y(layout, value)
        /\ layoutOp' = [op |-> "set_y", arg |-> value, err |-> "ok",
                        value |-> None]
    /\ LayoutIdle

\* layout.width = value
SetWidth ==
    /\ \E value \in Offsets :
        /\ layout' = set_width(layout, value)
        /\ layoutOp' = [op |-> "set_width", arg |-> value, err |-> "ok",
                        value |-> None]
    /\ LayoutIdle

\* layout.height = value
SetHeight ==
    /\ \E value \in Offsets :
        /\ layout' = set_height(layout, value)
        /\ layoutOp' = [op |-> "set_height", arg |-> value, err |-> "ok",
                        value |-> None]
    /\ LayoutIdle

NextLayout ==
    SetHorzOffset \/ GetHorzOffset \/ SetX \/ SetY \/ SetWidth \/ SetHeight

SpecLayout == InitLayout /\ [][NextLayout]_vars

-----------------------------------------------------------------------------
(* Properties of the series reconciler (checked under Spec)                 *)

SersBefore == PlotAreaSers(before)
SersAfter == PlotAreaSers(plotArea)
Diff == Len(lastData) - Len(SersBefore)

\* a call was made and its count adjustment ran to its end
AdjustDone ==
    /\ result # "none"
    /\ ~(lastVia = "replace_data" /\ Len(before) = 0)
    /\ ~(Diff > 0 /\ (Len(before) = 0 \/ Len(before[Len(before)].sers) = 0))

\* the plot groups of a plot area: chart type and series identities, in
\* document order
Skeleton(pa) ==
    [g \in 1..Len(pa) |->
        [chart_type |-> pa[g].chart_type,
         ids |-> [j \in 1..Len(pa[g].sers) |-> pa[g].sers[j].id]]]

\* the position of the series with identity id among sers
PosIn(sers, id) == CHOOSE k \in 1..Len(sers) : sers[k].id = id

\* C1: after replace_series_data returns, the plot area holds as many c:ser
\* elements as the chart data holds series.
C1_SerCountMatches ==
    result = "ok" => Len(SersAfter) = Len(lastData)

C1_Witness ==
    /\ result = "ok"
    /\ Len(SersBefore) # Len(lastData)
    /\ Len(SersAfter) = Len(lastData)
    /\ Len(before) = 2

\* the plot group of pa that holds the series with identity id
GroupOf(pa, id) ==
    CHOOSE g \in 1..Len(pa) : \E j \in 1..Len(pa[g].sers) : pa[g].sers[j].id = id

\* C2: growth. Whenever a call asks for Diff > 0 more series than the plot
\* area holds and the plot area holds a series, the last existing series
\* element (plot-group order, then series order) is cloned Diff times, the
\* clones follow their source in document order, existing series keep their
\* formatting, idx and order, every clone carries the formatting of the last
\* existing series, and the j-th clone's idx and order are the j-th values
\* above the maxima present before the call.
C2_Growth ==
    (result # "none" /\ Diff > 0 /\ Len(SersBefore) > 0) =>
        LET src == SersBefore[Len(SersBefore)]
            g == GroupOf(before, src.id)
            old == before[g].sers
            new == plotArea[g].sers
            k == PosIn(old, src.id)
            maxIdx == SetMax(IdxVals(before))
            maxOrder == SetMax(OrderVals(before))
        IN /\ Len(plotArea) = Len(before)
           /\ \A h \in (1..Len(before)) \ {g} :
                Skeleton(plotArea)[h] = Skeleton(before)[h]
           /\ Len(new) = Len(old) + Diff
           /\ \A j \in 1..k : new[j].id = old[j].id
           /\ \A j \in (k + 1)..Len(old) : new[j + Diff].id = old[j].id
           /\ \A j \in 1..Diff :
                /\ new[k + j].id \notin SerIds(before)
                /\ new[k + j].spPr = src.spPr
                /\ new[k + j].idx = maxIdx + j
                /\ new[k + j].order = maxOrder + j
           /\ \A id \in SerIds(before) :
                /\ id \in SerIds(plotArea)
                /\ SerById(plotArea, id).spPr = SerById(before, id).spPr
                /\ SerById(plotArea, id).idx = SerById(before, id).idx
                /\ SerById(plotArea, id).order = SerById(before, id).order

\* C3: shrink. Exactly the last |Diff| series (plot-group order, then series
\* order) are removed, every plot group left without series is removed, and
\* every plot group that still has a series is kept.
C3_Shrink ==
    (AdjustDone /\ Diff < 0) =>
        LET keep == {SersBefore[i].id : i \in 1..Len(lastData)}
            cut == [g \in 1..Len(before) |->
                      [chart_type |-> before[g].chart_type,
                       ids |-> SelectSeq(Skeleton(before)[g].ids,
                                         LAMBDA id : id \in keep)]]
        IN /\ SerIds(plotArea) = keep
           /\ Skeleton(plotArea) = SelectSeq(cut, LAMBDA x : x.ids # <<>>)
           /\ \A g \in 1..Len(plotArea) : plotArea[g].sers # <<>>

C3_Witness ==
    /\ result = "ok"
    /\ Diff < 0
    /\ Len(before) = 2
    /\ Len(plotArea) = 1
    /\ Len(SersAfter) = 1

\* C4: after every call that returns, the idx values of the series elements
\* are unique and contiguous from 0 (every initial plot area has them so).
C4_IdxContiguous ==
    result = "ok" =>
        /\ Cardinality(IdxVals(plotArea)) = Len(SersAfter)
        /\ IdxVals(plotArea) = 0..(Len(SersAfter) - 1)

\* the children the rewriter of the last call owns
OwnedFields == IF lastRewriter = "none" THEN {} ELSE Range(RewriterFields(lastRewriter))

\* C5: a series element that survives a call keeps idx, order, its
\* formatting and every data child the rewriter does not own.
C5_OtherChildrenKept ==
    result # "none" =>
        \A id \in SerIds(before) \cap SerIds(plotArea) :
            LET b == SerById(before, id)
                a == SerById(plotArea, id)
            IN /\ a.idx = b.idx
               /\ a.order = b.order
               /\ a.spPr = b.spPr
               /\ \A field \in Range(DataFields) \ OwnedFields : a[field] = b[field]

C5_Witness ==
    /\ result = "ok"
    /\ \E id \in SerIds(before) \cap SerIds(plotArea) :
        /\ SerById(plotArea, id).tx # SerById(before, id).tx
        /\ SerById(plotArea, id).spPr = SerById(before, id).spPr
        /\ \E field \in Range(DataFields) \ OwnedFields :
            SerById(before, id)[field] # AbsentEl

\* C6: a call that raises leaves the plot area as it was before the call.
C6_RaiseLeavesPlotArea ==
    result \notin {"none", "ok"} => plotArea = before

\* the data shape of the existing chart, as replace_data takes it
ExistingShape == SeriesXmlRewriterFactory(before[1].chart_type)

ShapeMismatch ==
    /\ lastVia = "replace_data"
    /\ Len(before) > 0
    /\ lastData # <<>>
    /\ lastData[1].shape # ExistingShape

\* C7: replace_data with chart data of another shape than the existing plot
\* group ends in an error and leaves the plot area as it was.
C7_MismatchRejected ==
    ShapeMismatch => (result # "ok" /\ plotArea = before)

\* the plot group holding the i-th series of the plot area
GroupOfSer(pa, i) ==
    CHOOSE g \in 1..Len(pa) : PlotAreaSers(pa)[i].id \in Range(Skeleton(pa)[g].ids)

\* series element ser holds what the writer of the family builds from sd
WrittenBy(family, ser, sd) ==
    \A k \in 1..Len(RewriterFields(family)) :
        ser[RewriterFields(family)[k]] = BuildEl(RewriterFields(family)[k], sd)

\* C8 as claimed: after replace_data returns, the i-th series element holds
\* the i-th series of the data, written by the writer of the data shape of
\* the plot group that contains the element.
C8_WriterOfOwnGroup ==
    (lastVia = "replace_data" /\ result = "ok") =>
        /\ Len(SersAfter) = Len(lastData)
        /\ \A i \in 1..Len(SersAfter) :
            WrittenBy(IF plotArea[GroupOfSer(plotArea, i)].chart_type \in BubbleTypes
                      THEN "bubble"
                      ELSE IF plotArea[GroupOfSer(plotArea, i)].chart_type \in XyTypes
                      THEN "xy" ELSE "category",
                      SersAfter[i], lastData[i])

\* C8 amended: after replace_data returns, the i-th series element holds the
\* i-th series of the data, written by the writer of the data shape of the
\* chart's first plot group as it was when the call started.
C8_WriterOfFirstGroup ==
    (lastVia = "replace_data" /\ result = "ok") =>
        /\ Len(SersAfter) = Len(lastData)
        /\ \A i \in 1..Len(SersAfter) :
            WrittenBy(IF before[1].chart_type \in BubbleTypes THEN "bubble"
                      ELSE IF before[1].chart_type \in XyTypes THEN "xy"
                      ELSE "category",
                      SersAfter[i], lastData[i])

C8_Witness ==
    /\ lastVia = "replace_data"
    /\ result = "ok"
    /\ Len(plotArea) = 2
    /\ Len(lastData) >= 2
    /\ plotArea[1].chart_type \in BarTypes
    /\ plotArea[2].chart_type \in XyTypes
    /\ SersAfter[Len(SersAfter)].cat = CatEl(lastData[Len(lastData)])

-----------------------------------------------------------------------------
(* Properties of Chart.add_plot (checked under SpecChart)                   *)

PlotIdxs == 1..Len(chart.plots)
AxisPlot(i) == chart.plots[i].chart_type \notin DoughnutTypes \cup PieTypes \cup RadarTypes

\* C9: no chart holds an axis-bearing plot together with a plot without
\* axes; an add_plot call raises exactly when the plot's has_axes differs
\* from that of the plots in the chart, and an accepted plot is appended.
C9_NoMixedAxes ==
    /\ \A i, j \in PlotIdxs : AxisPlot(i) = AxisPlot(j)
    /\ addResult = "ValueError" =>
        /\ Len(chart.plots) > 0
        /\ AxisPlot(1) # (addedPlot.chart_type \notin DoughnutTypes \cup PieTypes \cup RadarTypes)
    /\ addResult = "ok" =>
        /\ Len(chart.plots) > 0
        /\ chart.plots[Len(chart.plots)] = addedPlot

C9_Witness ==
    /\ addResult = "ValueError"
    /\ Len(chart.plots) = 2
    /\ AxisPlot(1)

SecondarySet == chart.secondary_x_axis_id # None

\* the caller assigned the attribute attr of the i-th plot after add_plot
Reassigned(attr, i) == \E k \in 1..Len(assigned) : assigned[k] = <<attr, i>>

\* the secondary pair is set exactly when an axis-bearing secondary plot is
\* in the chart; such plots hold the secondary pair, axis-bearing primary
\* plots hold the primary pair (an id the caller assigned afterwards is what
\* the caller made it)
C10_State ==
    /\ SecondarySet <=> (\E i \in PlotIdxs : AxisPlot(i) /\ chart.plots[i].secondary_axis)
    /\ SecondarySet <=> chart.secondary_y_axis_id # None
    /\ \A i \in PlotIdxs :
        AxisPlot(i) =>
            /\ ~Reassigned("x_axis_id", i) =>
                  chart.plots[i].x_axis_id =
                    IF chart.plots[i].secondary_axis
                    THEN chart.secondary_x_axis_id ELSE chart.x_axis_id
            /\ ~Reassigned("y_axis_id", i) =>
                  chart.plots[i].y_axis_id =
                    IF chart.plots[i].secondary_axis
                    THEN chart.secondary_y_axis_id ELSE chart.y_axis_id

\* once set, the secondary pair stays what it is
C10_Step ==
    SecondarySet =>
        /\ chart'.secondary_x_axis_id = chart.secondary_x_axis_id
        /\ chart'.secondary_y_axis_id = chart.secondary_y_axis_id

\* C10: the secondary axis-id pair is unset until the first axis-bearing
\* secondary plot is added, is allocated then and never changes afterwards;
\* every axis-bearing secondary plot references it and every axis-bearing
\* primary plot references the primary pair.
C10_SecondaryShared == [](C10_State) /\ [][C10_Step]_vars

C10_Witness ==
    /\ Len(chart.plots) = 3
    /\ chart.plots[1].secondary_axis /\ AxisPlot(1)
    /\ ~chart.plots[2].secondary_axis
    /\ chart.plots[3].secondary_axis
    /\ chart.plots[3].x_axis_id = chart.plots[1].x_axis_id
    /\ chart.plots[3].x_axis_id # chart.plots[2].x_axis_id

\* C28: replace_series_data is idempotent: a call that succeeds, applied
\* right after a successful call of the same rewriter with the same chart
\* data, leaves the plot area (plot groups, series, idx/order values, every
\* child of every series) as the first call left it.
C28_ReplaceIdempotent ==
    [][(/\ result = "ok"
        /\ result' = "ok"
        /\ lastRewriter' = lastRewriter
        /\ lastData' = lastData) => plotArea' = plotArea]_vars

C28_Witness ==
    /\ calls = 2
    /\ result = "ok"
    /\ plotArea = before
    /\ Len(lastData) = 3
    /\ Len(PlotAreaSers(plotArea)) = 3
    /\ \A i \in 1..3 : WrittenBy(lastRewriter, PlotAreaSers(plotArea)[i], lastData[i])

\* after replace_data: it returned and the plot area and the workbook both
\* hold the new chart data, or it raised and the plot area is as it was
C29_State ==
    lastVia = "replace_data" =>
        /\ result = "ok" =>
            /\ workbook = [updated |-> TRUE, data |-> lastData]
            /\ Len(SersAfter) = Len(lastData)
            /\ \A i \in 1..Len(SersAfter) :
                WrittenBy(lastRewriter, SersAfter[i], lastData[i])
        /\ result # "ok" => plotArea = before

\* a replace_data call that raises leaves the workbook as it was
C29_Step ==
    (lastVia' = "replace_data" /\ result' # "ok") => workbook' = workbook

\* C29: replace_data updates the workbook only after the series rewrite has
\* completed: when the rewrite raises the workbook is not updated, and after
\* any return or failure the plot area and the workbook both hold the new
\* chart data or both hold the old data.
C29_WorkbookAfterRewrite == [](C29_State) /\ [][C29_Step]_vars

\* C27: an add_plot call rejected for an axis-presence mismatch changes
\* nothing: the chart (plot list, has_axes flag, primary and secondary axis
\* ids) is what it was before the call and the rejected plot's axis ids are
\* still unset.
C27_RejectedAddChangesNothing ==
    [][(adds' = adds + 1 /\ addResult' = "ValueError") =>
          /\ chart' = chart
          /\ addedPlot'.x_axis_id = None
          /\ addedPlot'.y_axis_id = None]_vars

C27_Witness ==
    /\ addResult = "ValueError"
    /\ ~chart.has_axes
    /\ addedPlot.chart_type = "COLUMN_CLUSTERED"
    /\ addedPlot.secondary_axis
    /\ addedPlot.x_axis_id = None
    /\ chart.secondary_x_axis_id = None

\* the axis ids the chart holds: the primary pair and, once allocated, the
\* secondary pair
ChartAxisIds ==
    IF chart.secondary_x_axis_id = None
    THEN <<chart.x_axis_id, chart.y_axis_id>>
    ELSE <<chart.x_axis_id, chart.y_axis_id,
           chart.secondary_x_axis_id, chart.secondary_y_axis_id>>

\* C11: the axis ids of a chart are within the range of the random draw and
\* pairwise distinct; the secondary pair never collides with the primary
\* pair.
C11_AxisIdsDistinct ==
    /\ \A i \in 1..Len(ChartAxisIds) : ChartAxisIds[i] \in AxisIds
    /\ \A i, j \in 1..Len(ChartAxisIds) :
        i # j => ChartAxisIds[i] # ChartAxisIds[j]

-----------------------------------------------------------------------------
(* Properties of the chart document writer (checked under SpecRender) and   *)
(* of the factories (checked under SpecFactory)                             *)

AxisTags == {"c:valAx", "c:catAx", "c:dateAx"}
IsAxis(e) == e.tag \in AxisTags
IsGroup(e) == e.tag \notin AxisTags

\* the plot-group elements and the axis elements of the document, in
\* document order
DocGroups == SelectSeq(doc.children, IsGroup)
DocAxes == SelectSeq(doc.children, IsAxis)

Rendered == renderResult # "none"
RenderedOk == renderResult = "ok"

\* the plot-group element of each writer family
ExpectedTag(chart_type) ==
    IF chart_type \in AreaTypes THEN "c:areaChart"
    ELSE IF chart_type \in BarTypes THEN "c:barChart"
    ELSE IF chart_type \in BubbleTypes THEN "c:bubbleChart"
    ELSE IF chart_type \in DoughnutTypes THEN "c:doughnutChart"
    ELSE IF chart_type \in LineTypes THEN "c:lineChart"
    ELSE IF chart_type \in PieTypes THEN "c:pieChart"
    ELSE IF chart_type \in RadarTypes THEN "c:radarChart"
    ELSE "c:scatterChart"

\* the data shape of a chart type
ShapeOfType(chart_type) ==
    IF chart_type \in {"BUBBLE", "BUBBLE_THREE_D_EFFECT"} THEN "bubble"
    ELSE IF chart_type \in {"XY_SCATTER", "XY_SCATTER_LINES",
                            "XY_SCATTER_LINES_NO_MARKERS", "XY_SCATTER_SMOOTH",
                            "XY_SCATTER_SMOOTH_NO_MARKERS"} THEN "xy"
    ELSE "category"

\* C12: rendering a chart that has no plots fails and produces no document.
C12_EmptyChartFails ==
    (Rendered /\ chart.plots = <<>>) =>
        (renderResult \in Exceptions /\ doc = NoDoc)

\* a chart of one plot of a supported type, built with every series of a
\* non-empty chart data of the shape of that type
OnePlotMatchingData ==
    /\ Len(chart.plots) = 1
    /\ chart.plots[1].chart_type \in ChartTypes
    /\ chart.data.cls \in ChartDataClasses
    /\ ShapeOfClass(chart.data.cls) = ShapeOfType(chart.plots[1].chart_type)
    /\ chart.data.series # <<>>
    /\ chart.plots[1].series_seq = chart.data.series

\* C13: for every supported chart type, rendering a chart of one plot of
\* that type with data of the matching shape completes without an error;
\* the document holds the plot's group element and, for an axis-bearing
\* type, the axes.
C13_EveryTypeRenders ==
    (Rendered /\ OnePlotMatchingData) =>
        /\ renderResult = "ok"
        /\ Len(DocGroups) = 1
        /\ DocGroups[1].tag = ExpectedTag(chart.plots[1].chart_type)
        /\ chart.plots[1].chart_type \notin DoughnutTypes \cup PieTypes \cup RadarTypes
            => DocAxes # <<>>

WriterClasses ==
    {"_AreaChartXmlWriter", "_BarChartXmlWriter", "_BubbleChartXmlWriter",
     "_DoughnutChartXmlWriter", "_LineChartXmlWriter", "_PieChartXmlWriter",
     "_RadarChartXmlWriter", "_XyChartXmlWriter"}

\* C14: PlotXmlWriter maps each of the 29 chart types Plot.has_axes knows
\* to exactly one of the eight writer classes, and raises
\* NotImplementedError for a chart type its table has no entry for.
C14_PlotWriterDispatchTotal ==
    LET t == dispatch.chart_type
        entries == {e \in PlotXmlWriterTable : e[1] = t}
    IN t # "none" =>
        /\ Cardinality(HasAxesKeys) = 29
        /\ t \in HasAxesKeys =>
            /\ Cardinality(entries) = 1
            /\ dispatch.writer \in WriterClasses
            /\ entries = {<<t, dispatch.writer>>}
        /\ entries = {} => dispatch.writer = "NotImplementedError"
        /\ dispatch.writer = "NotImplementedError" => t \notin HasAxesKeys

C14_Witness ==
    /\ dispatch.chart_type = "SURFACE"
    /\ dispatch.writer = "NotImplementedError"

\* C15: the rewriter chosen for a chart type is the bubble rewriter for the
\* two bubble types, the XY rewriter for the five XY types and the category
\* rewriter for any other type, and it is the family of the series writer
\* the plot writer of that chart type uses.
C15_RewriterByShape ==
    LET t == dispatch.chart_type
    IN t # "none" =>
        /\ dispatch.rewriter = ShapeOfType(t)
        /\ dispatch.writer \in WriterClasses =>
            dispatch.rewriter = SeriesWriterOf(dispatch.writer)

C15_Witness ==
    /\ dispatch.chart_type = "BUBBLE_THREE_D_EFFECT"
    /\ dispatch.rewriter = "bubble"
    /\ dispatch.writer = "_BubbleChartXmlWriter"

\* C16: the plot-group element of every plot holds one series element per
\* series of that plot's own series list, in the same order.
C16_SeriesOfOwnPlot ==
    RenderedOk =>
        /\ Len(DocGroups) = Len(chart.plots)
        /\ \A k \in 1..Len(chart.plots) :
            LET sers == DocGroups[k].sers
                series_seq == chart.plots[k].series_seq
            IN /\ Len(sers) = Len(series_seq)
               /\ \A j \in 1..Len(sers) :
                    /\ sers[j].idx = series_seq[j].index
                    /\ sers[j].tx = TxEl(series_seq[j])

\* C17: the document holds one plot-group element per plot of the chart, in
\* the order of the chart's plots, and every plot-group element precedes
\* every axis element.
C17_GroupPerPlotInOrder ==
    RenderedOk =>
        /\ Len(DocGroups) = Len(chart.plots)
        /\ \A k \in 1..Len(chart.plots) :
            /\ DocGroups[k].tag = ExpectedTag(chart.plots[k].chart_type)
            /\ chart.plots[k].chart_type \notin DoughnutTypes \cup PieTypes \cup RadarTypes
                => DocGroups[k].axIds = <<chart.plots[k].x_axis_id,
                                          chart.plots[k].y_axis_id>>
        /\ \A i, j \in 1..Len(doc.children) :
            (IsGroup(doc.children[i]) /\ IsAxis(doc.children[j])) => i < j

C17_Witness ==
    /\ RenderedOk
    /\ Len(chart.plots) = 2
    /\ chart.plots[1].chart_type = "COLUMN_CLUSTERED"
    /\ chart.plots[2].chart_type = "LINE"
    /\ chart.plots[2].secondary_axis
    /\ Len(DocGroups) = 2
    /\ Len(DocAxes) = 4

\* the axis-id pairs (x, y) the plots of the chart reference
ReferencedPairs ==
    {<<chart.plots[k].x_axis_id, chart.plots[k].y_axis_id>> :
        k \in 1..Len(chart.plots)}

ValAxes == SelectSeq(DocAxes, LAMBDA a : a.tag = "c:valAx")
CatAxes == SelectSeq(DocAxes, LAMBDA a : a.tag # "c:valAx")

\* C18: the axes are emitted exactly when chart.has_axes is true, and then
\* there is one value axis and one category-or-date axis for each axis-id
\* pair a plot references and none for any other pair.
C18_AxesForReferencedPairs ==
    RenderedOk =>
        /\ DocAxes # <<>> <=> chart.has_axes
        /\ chart.has_axes =>
            /\ {<<ValAxes[k].crossAx, ValAxes[k].axId>> : k \in 1..Len(ValAxes)}
                 = ReferencedPairs
            /\ {<<CatAxes[k].axId, CatAxes[k].crossAx>> : k \in 1..Len(CatAxes)}
                 = ReferencedPairs
            /\ Len(ValAxes) = Cardinality(ReferencedPairs)
            /\ Len(CatAxes) = Cardinality(ReferencedPairs)

\* C19: when a secondary axis pair is emitted, its category-or-date axis has
\* delete = 1 and the primary category-or-date axis has delete = 0.
C19_SecondaryCategoryAxisHidden ==
    (RenderedOk /\ Len(DocAxes) = 4) =>
        /\ DocAxes[2].delete = "0"
        /\ DocAxes[4].delete = "1"

\* C20: in the emitted axes each pair is a value axis followed by a
\* category-or-date axis whose crossAx is the other's id, and no axis
\* cross-references an axis of the other pair.
C20_CrossAxWithinPair ==
    RenderedOk =>
        /\ Len(DocAxes) \in {0, 2, 4}
        /\ \A k \in 1..Len(DocAxes) :
            LET partner == IF k % 2 = 1 THEN k + 1 ELSE k - 1
            IN /\ (DocAxes[k].tag = "c:valAx") <=> (k % 2 = 1)
               /\ DocAxes[k].crossAx = DocAxes[partner].axId
               /\ \A o \in 1..Len(DocAxes) :
                    (o # k /\ o # partner) => DocAxes[k].crossAx # DocAxes[o].axId

\* the ids of the chart's primary pair and of its secondary pair
ChartPairIds ==
    {chart.x_axis_id, chart.y_axis_id, chart.secondary_x_axis_id,
     chart.secondary_y_axis_id} \ {None}

\* C21: a plot-group element holds axis-id references if and only if its
\* plot is axis-bearing, and every reference it holds is an id of the
\* chart's primary or secondary pair, never an unset value.
C21_AxisRefsIffAxisBearing ==
    (RenderedOk /\ Len(DocGroups) = Len(chart.plots)) =>
        \A k \in 1..Len(chart.plots) :
            /\ (DocGroups[k].axIds # <<>>)
                 <=> PlotHasAxes(chart.plots[k].chart_type)
            /\ \A i \in 1..Len(DocGroups[k].axIds) :
                 /\ DocGroups[k].axIds[i] # None
                 /\ DocGroups[k].axIds[i] \in ChartPairIds

StackedTypes ==
    {"AREA_STACKED", "BAR_STACKED", "COLUMN_STACKED", "LINE_STACKED",
     "LINE_MARKERS_STACKED"}

PercentStackedTypes ==
    {"AREA_STACKED_100", "BAR_STACKED_100", "COLUMN_STACKED_100",
     "LINE_STACKED_100", "LINE_MARKERS_STACKED_100"}

\* the chart types PlotXmlWriter maps to the area, bar/column or line writer
GroupedTypes ==
    {e[1] : e \in {t \in PlotXmlWriterTable :
                      t[2] \in {"_AreaChartXmlWriter", "_BarChartXmlWriter",
                                "_LineChartXmlWriter"}}}

\* C30: for every chart type PlotXmlWriter maps to the area, bar/column or
\* line writer the grouping lookup, and for bar/column the bar-direction
\* lookup, yields a value without raising, and overlap is emitted exactly
\* for the stacked and percent-stacked bar/column types.
C30_SubParameterLookupsTotal ==
    /\ (/\ Rendered
        /\ chart.plots # <<>>
        /\ IsCategoryChartData(chart.data)
        /\ \A k \in 1..Len(chart.plots) :
              chart.plots[k].chart_type \in GroupedTypes) =>
            renderResult \notin {"KeyError", "NotImplementedError"}
    /\ (RenderedOk /\ Len(DocGroups) = Len(chart.plots)) =>
        \A k \in 1..Len(chart.plots) :
            LET t == chart.plots[k].chart_type
                g == DocGroups[k]
            IN t \in GroupedTypes =>
                /\ g.grouping =
                     (IF t \in PercentStackedTypes THEN "percentStacked"
                      ELSE IF t \in StackedTypes THEN "stacked"
                      ELSE IF g.tag = "c:barChart" THEN "clustered"
                      ELSE "standard")
                /\ g.tag = "c:barChart" =>
                     g.barDir = (IF t \in {"BAR_CLUSTERED", "BAR_STACKED",
                                           "BAR_STACKED_100"}
                                 THEN "bar" ELSE "col")
                /\ g.tag # "c:barChart" => g.barDir = ""
                /\ (g.overlap # "") <=>
                     (g.tag = "c:barChart"
                      /\ t \in StackedTypes \cup PercentStackedTypes)

C30_Witness ==
    /\ RenderedOk
    /\ Len(chart.plots) = 1
    /\ chart.plots[1].chart_type = "BAR_STACKED"
    /\ Len(DocGroups) = 1
    /\ DocGroups[1].grouping = "stacked"
    /\ DocGroups[1].barDir = "bar"
    /\ DocGroups[1].overlap = "100"

-----------------------------------------------------------------------------
(* Properties of the series writers (checked under SpecWriter)              *)

Written == written # NoWritten

\* the positions of values, from 0, whose value is not None
Present(values) == {i - 1 : i \in {j \in 1..Len(values) : values[j] # None}}

\* frag is the sparse cache of values: ptCount is the full length, there is
\* one point for each position that holds a value, in order, with that value
SparseCacheOf(frag, values) ==
    /\ frag.ptCount = Len(values)
    /\ {frag.pts[k][1] : k \in 1..Len(frag.pts)} = Present(values)
    /\ Len(frag.pts) = Cardinality(Present(values))
    /\ \A k \in 1..Len(frag.pts) :
        /\ frag.pts[k][1] \in 0..(Len(values) - 1)
        /\ frag.pts[k][2] = values[frag.pts[k][1] + 1]

\* C22: every values fragment a series writer writes (values of a category
\* series, x values, y values, bubble sizes) has ptCount equal to the full
\* length of the sequence and a point for exactly the positions whose value
\* is not None, idx being the position in the sequence.
C22_SparseValues ==
    Written =>
        /\ series.shape = "category" =>
            SparseCacheOf(written.val, series.values)
        /\ series.shape \in {"xy", "bubble"} =>
            /\ SparseCacheOf(written.xVal, series.x_values)
            /\ SparseCacheOf(written.yVal, series.y_values)
        /\ series.shape = "bubble" =>
            SparseCacheOf(written.bubbleSize, series.bubble_sizes)

C22_Witness ==
    /\ Written
    /\ series.shape = "bubble"
    /\ series.bubble_sizes = <<10, None, 30>>
    /\ written.bubbleSize.ptCount = 3
    /\ written.bubbleSize.pts = <<<<0, 10>>, <<2, 30>>>>

MultiLevel ==
    /\ series.shape = "category"
    /\ ~series.categories.are_numeric
    /\ series.categories.paths # <<>>
    /\ Len(series.categories.paths[1]) >= 2

\* C23: for multi-level categories the categories fragment holds one level
\* fragment per depth level, the leaf level holding one entry per leaf
\* category, and its top-level ptCount is the number of leaf categories.
C23_MultiLevelCategories ==
    (Written /\ MultiLevel) =>
        /\ written.cat.kind = "cat:multiLvlStrRef"
        /\ Len(written.cat.lvls) = Len(series.categories.paths[1])
        /\ written.cat.ptCount = Len(series.categories.paths)
        /\ Len(written.cat.lvls[1]) = Len(series.categories.paths)
        /\ \A k \in 1..Len(written.cat.lvls) :
            \A j \in 1..Len(written.cat.lvls[k]) :
                written.cat.lvls[k][j][1] \in 0..(Len(series.categories.paths) - 1)

C23_Witness ==
    /\ Written
    /\ series.categories.paths =
         << << <<"a">>, <<"a">> >>,
            << <<"a">>, <<"&", "<", ">">> >>,
            << <<"&", "<", ">">>, <<"a">> >> >>
    /\ Len(written.cat.lvls) = 2
    /\ Len(written.cat.lvls[2]) = 2
    /\ written.cat.lvls[2][2][1] = 2
    /\ written.cat.ptCount = 3

\* text that holds no bare "&", "<" or ">"
Escaped(text) == \A i \in 1..Len(text) : text[i] \notin {"&", "<", ">"}

\* the texts of a fragment
FragStrsEscaped(frag) ==
    /\ \A k \in 1..Len(frag.strs) : Escaped(frag.strs[k][2])
    /\ \A k \in 1..Len(frag.lvls) :
        \A j \in 1..Len(frag.lvls[k]) : Escaped(frag.lvls[k][j][2])

FragRefsEscaped(frag) == Escaped(frag.f) /\ Escaped(frag.formatCode)

WrittenFrags ==
    {written.tx, written.cat, written.val, written.xVal, written.yVal,
     written.bubbleSize}

\* C24: no fragment of a series holds an unescaped "&", "<" or ">" coming
\* from the series name, a category label, a worksheet reference or a
\* number-format code.
C24_FragmentsEscaped ==
    Written =>
        \A frag \in WrittenFrags :
            FragStrsEscaped(frag) /\ FragRefsEscaped(frag)

-----------------------------------------------------------------------------
(* Properties of the axis lookups of _Chart (checked under SpecAxis)        *)

\* the axis elements of a list that are not marked deleted
NonDeleted(lst) == SelectSeq(lst, LAMBDA el : el.delete # 1)

\* the first non-deleted category axis, else date axis, else value axis
FirstAxis ==
    IF NonDeleted(chartSpace.catAx_lst) # <<>>
    THEN NonDeleted(chartSpace.catAx_lst)[1]
    ELSE IF NonDeleted(chartSpace.dateAx_lst) # <<>>
    THEN NonDeleted(chartSpace.dateAx_lst)[1]
    ELSE IF NonDeleted(chartSpace.valAx_lst) # <<>>
    THEN NonDeleted(chartSpace.valAx_lst)[1]
    ELSE NoEl

\* C25: category_axis returns a proxy over the first non-deleted category
\* axis, else date axis, else value axis, and raises ValueError when there is
\* none; it never returns a proxy over a missing element.  value_axis raises
\* ValueError when the chart has no value axis.
C25_AxisLookup ==
    /\ axisResult.op = "category_axis" =>
        /\ axisResult.err = "ok" =>
            /\ axisResult.el # NoEl
            /\ axisResult.el.delete # 1
            /\ axisResult.el = FirstAxis
        /\ FirstAxis = NoEl => axisResult.err = "ValueError"
    /\ (axisResult.op = "value_axis" /\ chartSpace.valAx_lst = <<>>) =>
        axisResult.err = "ValueError"

-----------------------------------------------------------------------------
(* Properties of the c:layout element (checked under SpecLayout)            *)

\* the value in c:x when c:xMode is "factor", 0 when there is none
FactorOffset ==
    IF layout.manualLayout /\ layout.x_ # None /\ layout.xMode = "factor"
    THEN layout.x_ ELSE 0

\* C26: assigning a non-zero offset v to horz_offset leaves c:xMode "factor"
\* and c:x v, assigning 0 removes c:manualLayout; reading horz_offset
\* terminates and returns the value in c:x when c:xMode is "factor", 0
\* whenever c:x is absent or c:xMode is not "factor".
C26_HorzOffsetRoundTrip ==
    /\ (layoutOp.op = "set_horz_offset" /\ layoutOp.arg # 0) =>
        /\ layout.manualLayout
        /\ layout.xMode = "factor"
        /\ layout.x_ = layoutOp.arg
    /\ (layoutOp.op = "set_horz_offset" /\ layoutOp.arg = 0) =>
        ~layout.manualLayout
    /\ layoutOp.op = "horz_offset" =>
        /\ layoutOp.err = "ok"
        /\ layoutOp.value = FactorOffset

====
